---- MODULE Spec2Model ----
(***************************************************************************)
(* Detection normalization, line grouping and bounding-box comparison of   *)
(* the medical OCR pipeline (src/mcp/mcp_ocr_*.py and                      *)
(* src/notebooks/qa_pipeline_evaluator.py).                                *)
(*                                                                         *)
(* Units.  Pixel coordinates are integers.  A confidence is an integer     *)
(* number of thousandths: 1000 is 1.0, 900 is 0.9, 97000 is the            *)
(* percentage 97.  A Block's mean confidence is kept as the exact fraction *)
(* <<sum of member confidences, number of members>>.  A text is the        *)
(* sequence of its characters, so that trimming and joining are computed.  *)
(* Every normalized detection carries the index of the raw detection it    *)
(* came from (field id) and every Block the ids of its members (field      *)
(* members); both are bookkeeping the program does not store.              *)
(***************************************************************************)
EXTENDS Integers, Sequences, FiniteSets, TLC

\* ---------------------------------------------------------------- bounds
\* longest raw detection list handed to a parser
MaxDets == 3
\* width and height of the source image, in pixels
ImgW == 100
ImgH == 60

\* ------------------------------------------------------ program constants
\* y_tol of parse_surya_output; the literal 10 of the other groupers
YTol == 10
\* confidence is a percentage when it exceeds 1.0
One == 1000

\* an optional value: None (Python None, a missing key or attribute) or
\* Some(x)
None == <<>>
Some(x) == <<x>>
Val(o) == o[1]

\* ---------------------------------------------------------------- helpers
Min2(a, b) == IF a <= b THEN a ELSE b
Max2(a, b) == IF a >= b THEN a ELSE b
Abs(a) == IF a < 0 THEN 0 - a ELSE a

RECURSIVE MinOf(_)
MinOf(s) == IF Len(s) = 1 THEN s[1] ELSE Min2(s[1], MinOf(Tail(s)))

RECURSIVE MaxOf(_)
MaxOf(s) == IF Len(s) = 1 THEN s[1] ELSE Max2(s[1], MaxOf(Tail(s)))

RECURSIVE SumOf(_)
SumOf(s) == IF s = <<>> THEN 0 ELSE s[1] + SumOf(Tail(s))

\* str.strip(): drop leading and trailing blanks
RECURSIVE LStrip(_)
LStrip(t) == IF t # <<>> /\ t[1] = " " THEN LStrip(Tail(t)) ELSE t

RECURSIVE RStrip(_)
RStrip(t) ==
    IF t # <<>> /\ t[Len(t)] = " " THEN RStrip(SubSeq(t, 1, Len(t) - 1)) ELSE t

Strip(t) == RStrip(LStrip(t))

\* " ".join(texts)
RECURSIVE Join(_)
Join(ts) ==
    IF ts = <<>> THEN <<>>
    ELSE IF Len(ts) = 1 THEN ts[1]
    ELSE ts[1] \o <<" ">> \o Join(Tail(ts))

\* list.sort / sorted: stable, ascending; Lt(a, b) is key(a) < key(b).
\* x goes before the first element whose key is greater than its own.
InsertSorted(s, x, Lt(_, _)) ==
    LET after == {i \in 1..Len(s) : Lt(x, s[i])}
        p == IF after = {} THEN Len(s) + 1
             ELSE CHOOSE i \in after : \A j \in after : i <= j
    IN SubSeq(s, 1, p - 1) \o <<x>> \o SubSeq(s, p, Len(s))

SortBy(s, Lt(_, _)) ==
    LET f[n \in 0..Len(s)] ==
            IF n = 0 THEN <<>> ELSE InsertSorted(f[n - 1], s[n], Lt)
    IN f[Len(s)]

Ids(s) == [i \in 1..Len(s) |-> i]
Field(s, f) == [i \in 1..Len(s) |-> s[i][f]]
BoxAt(s, k) == [i \in 1..Len(s) |-> s[i].bbox[k]]

\* ------------------------------------------------------- raw detections
\* One raw detection as a Detector hands it over: text, confidence (None
\* when the engine gave none) and four numbers <<x0, y0, x1, y1>> naming
\* two opposite corners.
Raw(t, c, g) == [text |-> t, conf |-> c, geom |-> g]

\* The raw detections a page is drawn from: two words of one line (the
\* second starts 2 px lower), a whitespace-only text, a detection without
\* confidence, a percentage confidence on a box 12 px down, an over-range
\* confidence on a line 50 px down, a zero-area box and an inverted box.
RawDetections ==
    { Raw(<<" ", "a">>, Some(900), <<0, 0, 50, 20>>),
      Raw(<<"b">>, Some(800), <<55, 2, 110, 22>>),
      Raw(<<" ">>, Some(900), <<0, 0, 50, 20>>),
      Raw(<<"b">>, None, <<55, 2, 110, 22>>),
      Raw(<<"c">>, Some(97000), <<30, 12, 45, 30>>),
      Raw(<<"c">>, Some(150000), <<0, 50, 50, 58>>),
      Raw(<<"c">>, Some(500), <<10, 10, 10, 10>>),
      Raw(<<"c">>, Some(500), <<60, 30, 20, 40>>) }

RawLists == UNION {[1..n -> RawDetections] : n \in 0..MaxDets}

\* the four corner points of an engine polygon
Polygon(g) == << <<g[1], g[2]>>, <<g[3], g[2]>>, <<g[3], g[4]>>, <<g[1], g[4]>> >>

\* bbox from a polygon: min/max over the points
PolyBox(poly) ==
    LET xs == [i \in 1..Len(poly) |-> poly[i][1]]
        ys == [i \in 1..Len(poly) |-> poly[i][2]]
    IN <<MinOf(xs), MinOf(ys), MaxOf(xs), MaxOf(ys)>>

\* a normalized detection ({'bbox', 'text', 'conf'} and, in the easyocr and
\* tesseract groupers, the key 'y0' once it has been stored)
Det(i, t, c, b) == [id |-> i, text |-> t, conf |-> c, bbox |-> b, y0 |-> None]

\* outcome of a parser call
Returned(bs, ds) == [status |-> "returned", blocks |-> bs, dets |-> ds]
Raised(ds) == [status |-> "raised", blocks |-> <<>>, dets |-> ds]

\* slip of the aggregation: the greatest x0 for the least
AggregateMaxLeft(current_line, text) ==
    [text |-> text,
     confidence |-> <<SumOf(Field(current_line, "conf")), Len(current_line)>>,
     bbox |-> <<MaxOf(BoxAt(current_line, 1)), MinOf(BoxAt(current_line, 2)),
                MaxOf(BoxAt(current_line, 3)), MaxOf(BoxAt(current_line, 4))>>,
     members |-> Field(current_line, "id")]

\* union bbox, mean confidence and joined text of one line
Aggregate(current_line, text) ==
    [text |-> text,
     confidence |-> <<SumOf(Field(current_line, "conf")), Len(current_line)>>,
     bbox |-> <<MinOf(BoxAt(current_line, 1)), MinOf(BoxAt(current_line, 2)),
                MaxOf(BoxAt(current_line, 3)), MaxOf(BoxAt(current_line, 4))>>,
     members |-> Field(current_line, "id")]

\* sorted(blocks, key=lambda b: b['bbox'][1])
SortBlocksDesc(blocks) == SortBy(blocks, LAMBDA a, b : a.bbox[2] > b.bbox[2])
SortBlocks(blocks) == SortBy(blocks, LAMBDA a, b : a.bbox[2] < b.bbox[2])

\* ------------------------------------------------------------------ surya
\* conf > 1.0 is a percentage; clamp to [0, 1]
SuryaConf(conf) ==
    LET c0 == IF conf = None THEN One ELSE Val(conf)
        c1 == IF c0 > One THEN c0 \div 100 ELSE c0
    IN Max2(0, Min2(One, c1))

SuryaKeep(raw) ==
    /\ Strip(raw.text) # <<>>
    /\ ~(raw.geom[3] <= raw.geom[1] \/ raw.geom[4] <= raw.geom[2])

SuryaDets(text_lines) ==
    LET ids == SelectSeq(Ids(text_lines), LAMBDA i : SuryaKeep(text_lines[i]))
    IN [k \in 1..Len(ids) |->
          Det(ids[k], Strip(text_lines[ids[k]].text),
              SuryaConf(text_lines[ids[k]].conf), text_lines[ids[k]].geom)]

SuryaFlush(current_line) ==
    Aggregate(current_line, Strip(Join(Field(current_line, "text"))))

RECURSIVE SuryaGroup(_, _, _, _)
SuryaGroup(dets, current_line, current_y, blocks) ==
    LET flushed == IF current_line # <<>>
                   THEN Append(blocks, SuryaFlush(current_line)) ELSE blocks
    IN IF dets = <<>> THEN flushed
       ELSE LET det == Head(dets)
                y0 == det.bbox[2]
            IN IF /\ current_line # <<>>
                  /\ current_y # None
                  /\ Abs(y0 - Val(current_y)) <= YTol
               THEN SuryaGroup(Tail(dets), Append(current_line, det), current_y, blocks)
               ELSE SuryaGroup(Tail(dets), <<det>>, Some(y0), flushed)

parse_surya_output(text_lines) ==
    LET dets == SortBy(SuryaDets(text_lines),
                       LAMBDA a, b : \/ a.bbox[2] < b.bbox[2]
                                     \/ /\ a.bbox[2] = b.bbox[2]
                                        /\ a.bbox[1] < b.bbox[1])
    IN Returned(SortBlocks(SuryaGroup(dets, <<>>, None, <<>>)), dets)

\* ---------------------------------------------------------------- easyocr
\* results: [(polygon, text, confidence), ...]; an item without its
\* confidence has fewer than 3 members and is skipped
EasyConf(confidence) == IF confidence > One THEN confidence \div 100 ELSE confidence

EasyKeep(raw) == raw.conf # None /\ Strip(raw.text) # <<>>

EasyDets(results) ==
    LET ids == SelectSeq(Ids(results), LAMBDA i : EasyKeep(results[i]))
    IN [k \in 1..Len(ids) |->
          Det(ids[k], Strip(results[ids[k]].text), EasyConf(Val(results[ids[k]].conf)),
              PolyBox(Polygon(results[ids[k]].geom)))]

\* flush of the easyocr and tesseract groupers: no sort, no strip
PlainFlush(current_line) == Aggregate(current_line, Join(Field(current_line, "text")))

\* The loop shared, line for line, by parse_easy_output and
\* parse_tess_output.  current_line[-1]['y0'] is read from the LAST member;
\* only the first member of a line ever gets the key, so the read raises
\* KeyError as soon as the last member is an appended one.
RECURSIVE Y0Group(_, _, _)
Y0Group(detections, current_line, blocks) ==
    LET flushed == IF current_line # <<>>
                   THEN Append(blocks, PlainFlush(current_line)) ELSE blocks
    IN IF detections = <<>> THEN [raised |-> FALSE, blocks |-> flushed]
       ELSE LET det == Head(detections)
                y0 == det.bbox[2]
                last == current_line[Len(current_line)]
            IN IF current_line # <<>> /\ last.y0 = None
               THEN [raised |-> TRUE, blocks |-> <<>>]
               ELSE IF current_line # <<>> /\ Abs(y0 - Val(last.y0)) <= YTol
               THEN Y0Group(Tail(detections), Append(current_line, det), blocks)
               ELSE Y0Group(Tail(detections), <<[det EXCEPT !.y0 = Some(y0)]>>, flushed)

Y0Parse(detections) ==
    LET sorted == SortBy(detections, LAMBDA a, b : a.bbox[2] < b.bbox[2])
        r == Y0Group(sorted, <<>>, <<>>)
    IN IF r.raised THEN Raised(sorted) ELSE Returned(SortBlocks(r.blocks), sorted)

parse_easy_output(results) == Y0Parse(EasyDets(results))

\* -------------------------------------------------------------- tesseract
\* image_to_data columns of one word: left, top, width, height, conf; a row
\* without a confidence carries "-1"
TessRow(raw) ==
    [text |-> raw.text,
     conf |-> IF raw.conf = None THEN -1000 ELSE Val(raw.conf),
     left |-> raw.geom[1], top |-> raw.geom[2],
     width |-> raw.geom[3] - raw.geom[1], height |-> raw.geom[4] - raw.geom[2]]

TessConf(conf) == conf \div 100

TessKeep(row) == Strip(row.text) # <<>> /\ row.conf >= 0

TessDets(d) ==
    LET ids == SelectSeq(Ids(d), LAMBDA i : TessKeep(d[i]))
    IN [k \in 1..Len(ids) |->
          Det(ids[k], Strip(d[ids[k]].text), TessConf(d[ids[k]].conf),
              <<d[ids[k]].left, d[ids[k]].top,
                d[ids[k]].left + d[ids[k]].width, d[ids[k]].top + d[ids[k]].height>>)]

parse_tess_output(d) == Y0Parse(TessDets(d))

\* ----------------------------------------------------------------- paddle
\* res: [[poly, (text, conf)], ...]; conf is taken as it comes
PaddleConf(rec) == IF rec.conf # None THEN Val(rec.conf) ELSE One

PaddleFlush(current_line) ==
    LET byx == SortBy(current_line, LAMBDA a, b : a.bbox[1] < b.bbox[1])
    IN Aggregate(byx, Join(Field(byx, "text")))

RECURSIVE PaddleGroup(_, _, _, _)
PaddleGroup(detections, current_line, blocks, kept) ==
    LET flushed == IF current_line # <<>>
                   THEN Append(blocks, PaddleFlush(current_line)) ELSE blocks
    IN IF detections = <<>> THEN [blocks |-> flushed, kept |-> kept]
       ELSE LET det == Head(detections)
                txt == Strip(det.text)
                bbox == PolyBox(det.poly)
                item == Det(det.id, txt, PaddleConf(det), bbox)
                y0 == bbox[2]
            IN IF txt = <<>>
               THEN PaddleGroup(Tail(detections), current_line, blocks, kept)
               ELSE IF /\ current_line # <<>>
                       /\ Abs(y0 - current_line[Len(current_line)].bbox[2]) <= YTol
               THEN PaddleGroup(Tail(detections), Append(current_line, item),
                                blocks, Append(kept, item))
               ELSE PaddleGroup(Tail(detections), <<item>>, flushed, Append(kept, item))

parse_paddle_output(res) ==
    LET raws == [i \in 1..Len(res) |->
                   [id |-> i, text |-> res[i].text, conf |-> res[i].conf,
                    poly |-> Polygon(res[i].geom)]]
        detections == SortBy(raws, LAMBDA a, b :
                         MinOf([k \in 1..Len(a.poly) |-> a.poly[k][2]])
                           < MinOf([k \in 1..Len(b.poly) |-> b.poly[k][2]]))
        r == PaddleGroup(detections, <<>>, <<>>, <<>>)
    IN Returned(SortBlocks(r.blocks), r.kept)

\* ----------------------------------------------- adapters without grouping
\* a Block made of one detection
Single(det) ==
    [text |-> det.text, confidence |-> <<det.conf, 1>>, bbox |-> det.bbox,
     members |-> <<det.id>>]

Singles(ds) == [i \in 1..Len(ds) |-> Single(ds[i])]

\* nanonets: pred.get("confidence", 0.9)
NanonetsConfSlip(pred) == IF pred.conf # None THEN Val(pred.conf) ELSE 800
NanonetsConf(pred) == IF pred.conf # None THEN Val(pred.conf) ELSE 900

\* nanonets: a box whose numbers are all <= 1.0 is a fraction of the image
NanonetsBox(bbox) ==
    IF \A k \in 1..4 : bbox[k] <= 1
    THEN <<bbox[1] * ImgW, bbox[2] * ImgH, bbox[3] * ImgW, bbox[4] * ImgH>>
    ELSE bbox

parse_nanonets_output(predictions) ==
    LET all == [i \in 1..Len(predictions) |->
                  Det(i, Strip(predictions[i].text), NanonetsConf(predictions[i]),
                      NanonetsBox(predictions[i].geom))]
        ds == SelectSeq(all, LAMBDA d : d.text # <<>>)
    IN Returned(Singles(ds), ds)

\* chandra: result.get('confidence', 0.9)
ChandraConf(result) == IF result.conf # None THEN Val(result.conf) ELSE 900

\* chandra: "Ensure coordinates are within image bounds"
ChandraBox(bbox) ==
    LET x1 == Max2(0, Min2(bbox[1], ImgW))
        y1 == Max2(0, Min2(bbox[2], ImgH))
        x2 == Max2(x1, Min2(bbox[3], ImgW))
        y2 == Max2(y1, Min2(bbox[4], ImgH))
    IN <<x1, y1, x2, y2>>

parse_chandra_output(results) ==
    LET all == [i \in 1..Len(results) |->
                  Det(i, Strip(results[i].text), ChandraConf(results[i]),
                      ChandraBox(results[i].geom))]
        ds == SelectSeq(all, LAMBDA d : d.text # <<>>)
    IN Returned(Singles(ds), ds)

\* docling: it.get("confidence", it.get("score", 0.99)), percentages scaled
DoclingConf(it) ==
    LET conf == IF it.conf # None THEN Val(it.conf) ELSE 990
    IN IF conf > One THEN conf \div 100 ELSE conf

extract_blocks_from_docling(candidates) ==
    LET all == [i \in 1..Len(candidates) |->
                  Det(i, Strip(candidates[i].text), DoclingConf(candidates[i]),
                      candidates[i].geom)]
        ds == SelectSeq(all, LAMBDA d : d.text # <<>>)
    IN Returned(Singles(ds), ds)

\* dots: block_data.get('confidence', 0.95)
DotsConf(block_data) == IF block_data.conf # None THEN Val(block_data.conf) ELSE 950

parse_dots_result(result) ==
    LET all == [i \in 1..Len(result) |->
                  Det(i, Strip(result[i].text), DotsConf(result[i]), result[i].geom)]
        ds == SelectSeq(all, LAMBDA d : d.text # <<>>)
    IN Returned(Singles(ds), ds)

\* doctr: word.get('confidence', 0.0)
DoctrConf(word) == IF word.conf # None THEN Val(word.conf) ELSE 0

\* doctr: the words of the page arrive in lines of two; the last line may
\* hold one word
DoctrLines(words) ==
    [l \in 1..((Len(words) + 1) \div 2) |->
        [k \in 1..(IF 2 * l <= Len(words) THEN 2 ELSE 1) |->
            Det(2 * (l - 1) + k, Strip(words[2 * (l - 1) + k].text),
                DoctrConf(words[2 * (l - 1) + k]), words[2 * (l - 1) + k].geom)]]

\* doctr: one Block per line; the emptiness test is on the joined text.
\* The bbox is the min/max over both corners of every word, scaled by the
\* page size.  Word geometry is relative to the page (here in thousandths
\* of it), so the scaled bbox is in thousandths of a pixel.
DoctrBlock(line) ==
    LET all_xs == BoxAt(line, 1) \o BoxAt(line, 3)
        all_ys == BoxAt(line, 2) \o BoxAt(line, 4)
    IN [text |-> Join(Field(line, "text")),
        confidence |-> <<SumOf(Field(line, "conf")), Len(line)>>,
        bbox |-> <<MinOf(all_xs) * ImgW, MinOf(all_ys) * ImgH,
                   MaxOf(all_xs) * ImgW, MaxOf(all_ys) * ImgH>>,
        members |-> Field(line, "id")]

RECURSIVE Flatten(_)
Flatten(ss) == IF ss = <<>> THEN <<>> ELSE Head(ss) \o Flatten(Tail(ss))

parse_doctr_output(words) ==
    LET lines == DoctrLines(words)
        kept == SelectSeq(lines, LAMBDA line : Join(Field(line, "text")) # <<>>)
    IN Returned([i \in 1..Len(kept) |-> DoctrBlock(kept[i])], Flatten(kept))

\* ---------------------------------------------------------- bbox compare
\* largest coordinate of the boxes handed to the IoU computation
MaxCoord == 2

Boxes == {<<x0, y0, x1, y1>> : x0 \in 0..MaxCoord, y0 \in 0..MaxCoord,
                               x1 \in 0..MaxCoord, y1 \in 0..MaxCoord}

\* an exact fraction <<numerator, denominator>>, denominator > 0
Zero == <<0, 1>>
RatEq(p, q) == p[1] * q[2] = q[1] * p[2]

\* slips of the IoU computation: the first box's area counted twice; the
\* intersection not subtracted from the union
calculate_bbox_iou_area1_twice(bbox1, bbox2) ==
    LET x1 == bbox1[1]  y1 == bbox1[2]  x2 == bbox1[3]  y2 == bbox1[4]
        x3 == bbox2[1]  y3 == bbox2[2]  x4 == bbox2[3]  y4 == bbox2[4]
        xi1 == Max2(x1, x3)  yi1 == Max2(y1, y3)
        xi2 == Min2(x2, x4)  yi2 == Min2(y2, y4)
        intersection == (xi2 - xi1) * (yi2 - yi1)
        area1 == (x2 - x1) * (y2 - y1)
        union == area1 + area1 - intersection
    IN IF xi2 <= xi1 \/ yi2 <= yi1 THEN Zero
       ELSE IF union > 0 THEN <<intersection, union>> ELSE Zero

calculate_bbox_iou_plain_sum(bbox1, bbox2) ==
    LET x1 == bbox1[1]  y1 == bbox1[2]  x2 == bbox1[3]  y2 == bbox1[4]
        x3 == bbox2[1]  y3 == bbox2[2]  x4 == bbox2[3]  y4 == bbox2[4]
        xi1 == Max2(x1, x3)  yi1 == Max2(y1, y3)
        xi2 == Min2(x2, x4)  yi2 == Min2(y2, y4)
        intersection == (xi2 - xi1) * (yi2 - yi1)
        area1 == (x2 - x1) * (y2 - y1)
        area2 == (x4 - x3) * (y4 - y3)
        union == area1 + area2
    IN IF xi2 <= xi1 \/ yi2 <= yi1 THEN Zero
       ELSE IF union > 0 THEN <<intersection, union>> ELSE Zero

calculate_bbox_iou(bbox1, bbox2) ==
    LET x1 == bbox1[1]  y1 == bbox1[2]  x2 == bbox1[3]  y2 == bbox1[4]
        x3 == bbox2[1]  y3 == bbox2[2]  x4 == bbox2[3]  y4 == bbox2[4]
        xi1 == Max2(x1, x3)  yi1 == Max2(y1, y3)
        xi2 == Min2(x2, x4)  yi2 == Min2(y2, y4)
        intersection == (xi2 - xi1) * (yi2 - yi1)
        area1 == (x2 - x1) * (y2 - y1)
        area2 == (x4 - x3) * (y4 - y3)
        union == area1 + area2 - intersection
    IN IF xi2 <= xi1 \/ yi2 <= yi1 THEN Zero
       ELSE IF union > 0 THEN <<intersection, union>> ELSE Zero

\* ------------------------------------------------------- stage comparison
\* longest Block list of one stage handed to the comparator
MaxBlocks == 2

\* arithmetic on exact fractions
Rat(n) == <<n, 1>>
RatAdd(p, q) == <<p[1] * q[2] + q[1] * p[2], p[2] * q[2]>>
RatSub(p, q) == <<p[1] * q[2] - q[1] * p[2], p[2] * q[2]>>
RatLt(p, q) == p[1] * q[2] < q[1] * p[2]
RatMax(p, q) == IF RatLt(p, q) THEN q ELSE p
RatMin(p, q) == IF RatLt(q, p) THEN q ELSE p
RatMul(p, q) == <<p[1] * q[1], p[2] * q[2]>>

\* a fraction in lowest terms
RECURSIVE GCD(_, _)
GCD(a, b) == IF b = 0 THEN a ELSE GCD(b, a % b)
Norm(q) == <<q[1] \div GCD(Abs(q[1]), q[2]), q[2] \div GCD(Abs(q[1]), q[2])>>

\* np.mean of a non-empty list of fractions
RECURSIVE SumRat(_)
SumRat(qs) == IF qs = <<>> THEN Zero ELSE Norm(RatAdd(Head(qs), SumRat(Tail(qs))))
np_mean(qs) == Norm(RatMul(SumRat(qs), <<1, Len(qs)>>))

\* a Block as a stage file stores it; bbox is a list of any length, <<>>
\* when the key is missing
StageBlock(t, b) == [text |-> t, bbox |-> b]

\* The Blocks a stage is drawn from: a word, a two-word text next to it, a
\* Block without text overlapping the first, a zero-area box, a Block
\* without bbox and a whitespace-only Block with a two-number bbox.
StageBlocks ==
    { StageBlock(<<"a">>, <<0, 0, 50, 20>>),
      StageBlock(<<"b", " ", "c">>, <<55, 2, 110, 22>>),
      StageBlock(<<>>, <<0, 5, 50, 25>>),
      StageBlock(<<"c">>, <<10, 10, 10, 10>>),
      StageBlock(<<"A">>, <<>>),
      StageBlock(<<" ">>, <<0, 0>>) }

StageLists == UNION {[1..n -> StageBlocks] : n \in 0..MaxBlocks}

\* str.split(): the maximal runs of non-blank characters
RECURSIVE Split(_)
Split(t) ==
    LET s == LStrip(t)
        blanks == {i \in 1..Len(s) : s[i] = " "}
        n == IF blanks = {} THEN Len(s) + 1
             ELSE CHOOSE i \in blanks : \A j \in blanks : i <= j
    IN IF s = <<>> THEN <<>>
       ELSE <<SubSeq(s, 1, n - 1)>> \o Split(SubSeq(s, n, Len(s)))

\* str.lower()
Lower(t) ==
    [i \in 1..Len(t) |->
        CASE t[i] = "A" -> "a" [] t[i] = "B" -> "b" [] t[i] = "C" -> "c"
          [] OTHER -> t[i]]

\* outcome of a comparator call: the metrics dict, or the exception raised
Metrics(m) == [status |-> "returned", metrics |-> m]
KeyError(k) == [status |-> "raised", error |-> "KeyError", key |-> k]
NotCalled == [status |-> "idle"]

extract_text_stats(blks) ==
    LET texts == Field(SelectSeq(blks, LAMBDA b : b.text # <<>>), "text")
        combined_text == Join(texts)
        words == Split(combined_text)
    IN [total_chars |-> Len(combined_text),
        total_words |-> Len(words),
        unique_words |-> Cardinality({Lower(words[i]) : i \in 1..Len(words)}),
        block_count |-> Len(blks),
        empty_blocks |-> Len(SelectSeq(blks, LAMBDA b : Strip(b.text) = <<>>)),
        texts |-> texts]

\* slip of the change record: the deltas taken from after to before
ContentChangesReversed(before_stats, after_stats) ==
    [chars_delta |-> before_stats.total_chars - after_stats.total_chars,
     words_delta |-> before_stats.total_words - after_stats.total_words,
     blocks_delta |-> before_stats.block_count - after_stats.block_count,
     unique_words_delta |-> before_stats.unique_words - after_stats.unique_words,
     empty_blocks_delta |-> before_stats.empty_blocks - after_stats.empty_blocks,
     content_retention |->
         <<after_stats.total_chars, Max2(before_stats.total_chars, 1)>>,
     block_retention |->
         <<after_stats.block_count, Max2(before_stats.block_count, 1)>>]

\* the deltas and retentions of the text statistics of two stages
ContentChanges(before_stats, after_stats) ==
    [chars_delta |-> after_stats.total_chars - before_stats.total_chars,
     words_delta |-> after_stats.total_words - before_stats.total_words,
     blocks_delta |-> after_stats.block_count - before_stats.block_count,
     unique_words_delta |-> after_stats.unique_words - before_stats.unique_words,
     empty_blocks_delta |-> after_stats.empty_blocks - before_stats.empty_blocks,
     content_retention |->
         <<after_stats.total_chars, Max2(before_stats.total_chars, 1)>>,
     block_retention |->
         <<after_stats.block_count, Max2(before_stats.block_count, 1)>>]

\* The change record of two stages.  text_similarity and
\* medical_terms_preserved, added only when a spaCy model is loaded, are
\* left out.
analyze_content_changes(before, after) ==
    Metrics(ContentChanges(extract_text_stats(before), extract_text_stats(after)))

\* violations are counted over neighbours of the given order and divided by
\* the number of boxes
calculate_reading_order_score(bboxes) ==
    LET violated(i) ==
            \/ bboxes[i][2] > bboxes[i + 1][2] + YTol
            \/ /\ Abs(bboxes[i][2] - bboxes[i + 1][2]) < YTol
               /\ bboxes[i][1] > bboxes[i + 1][1]
        order_violations == Cardinality({i \in 1..(Len(bboxes) - 1) : violated(i)})
    IN IF Len(bboxes) < 2 THEN Rat(1)
       ELSE RatMax(Zero, RatSub(Rat(1), <<order_violations, Len(bboxes)>>))

\* slip of the match threshold: every overlap counts as a match
MatchIoUNone == <<0, 1>>

\* the IoU above which a before box counts as matched: 0.3
MatchIoU == <<3, 10>>

calculate_layout_preservation(before_bboxes, after_bboxes) ==
    LET best_iou(b) ==
            LET f[n \in 0..Len(after_bboxes)] ==
                    IF n = 0 THEN Zero
                    ELSE RatMax(f[n - 1], calculate_bbox_iou(b, after_bboxes[n]))
            IN f[Len(after_bboxes)]
        total_iou[n \in 0..Len(before_bboxes)] ==
            IF n = 0 THEN Zero
            ELSE IF RatLt(MatchIoU, best_iou(before_bboxes[n]))
                 THEN RatAdd(total_iou[n - 1], best_iou(before_bboxes[n]))
                 ELSE total_iou[n - 1]
        total == total_iou[Len(before_bboxes)]
    IN IF before_bboxes = <<>> \/ after_bboxes = <<>> THEN Zero
       ELSE <<total[1], total[2] * Len(before_bboxes)>>

\* The layout statistics of one stage.  Without a Block that has a
\* four-number bbox the dict is returned without the key "bboxes".
get_layout_stats(blks, page_width, page_height) ==
    LET valid_blocks == SelectSeq(blks, LAMBDA b : b.bbox # <<>> /\ Len(b.bbox) = 4)
        bboxes == Field(valid_blocks, "bbox")
        total_area == SumOf([i \in 1..Len(bboxes) |->
                               Max2(0, (bboxes[i][3] - bboxes[i][1])
                                         * (bboxes[i][4] - bboxes[i][2]))])
        page_area == page_width * page_height
    IN IF valid_blocks = <<>>
       THEN [total_area |-> 0, coverage |-> Zero, bbox_count |-> 0,
             reading_order_score |-> Zero]
       ELSE [total_area |-> total_area,
             coverage |-> IF page_area > 0
                          THEN RatMin(Rat(1), <<total_area, page_area>>) ELSE Zero,
             bbox_count |-> Len(valid_blocks),
             reading_order_score |-> calculate_reading_order_score(bboxes),
             bboxes |-> bboxes]

analyze_layout_changes(before, after, page_width, page_height) ==
    LET before_layout == get_layout_stats(before, page_width, page_height)
        after_layout == get_layout_stats(after, page_width, page_height)
    IN IF "bboxes" \notin DOMAIN before_layout \/ "bboxes" \notin DOMAIN after_layout
       THEN KeyError("bboxes")
       ELSE Metrics(
        [area_retention |-> <<after_layout.total_area, Max2(before_layout.total_area, 1)>>,
         coverage_change |-> RatSub(after_layout.coverage, before_layout.coverage),
         bbox_count_change |-> after_layout.bbox_count - before_layout.bbox_count,
         reading_order_change |->
             RatSub(after_layout.reading_order_score, before_layout.reading_order_score),
         layout_preservation |->
             calculate_layout_preservation(before_layout.bboxes, after_layout.bboxes)])

\* ----------------------------------------------------------- pipeline run
\* most pages a run directory holds
MaxPages == 2

Pages == 1..MaxPages

\* the keys of stage_mapping, in its order
stage_mapping ==
    <<"01_blocks", "01a_normalized", "02_cleaned", "02a_segmented",
      "03_llmcleaned", "04_jsonextracted", "05_merged_validated">>

StageIndex(stage) == CHOOSE i \in 1..Len(stage_mapping) : stage_mapping[i] = stage

\* the stage directories a run directory may hold here
RunStages == {"01_blocks", "02_cleaned", "05_merged_validated"}

\* config["max_content_drop"]: 0.15
MaxContentDrop == <<15, 100>>

\* a text of n characters
Chars(n) == [i \in 1..n |-> "x"]

\* what the page files of one page hold: for each stage the text lengths of
\* the file's Blocks
Profile(a, b, c) ==
    [s \in RunStages |->
        CASE s = "01_blocks" -> a [] s = "02_cleaned" -> b [] OTHER -> c]

\* The file contents a run is drawn from; page p holds the profile at
\* position p (modulo the length).  100, 85 and 70 characters; a stage
\* without text followed by 100 characters in two Blocks and 86; an empty
\* Block list in the middle; a page without any text.
RunContents ==
    { <<Profile(<<100>>, <<85>>, <<70>>)>>,
      <<Profile(<<0>>, <<60, 39>>, <<86>>), Profile(<<100>>, <<85>>, <<70>>)>>,
      <<Profile(<<70>>, <<>>, <<100>>), Profile(<<0>>, <<>>, <<0>>)>> }

\* config["confidence_threshold"]: 0.7, in thousandths
ConfidenceThreshold == 700

\* The confidence, in thousandths, that a stage file gives its Block of n
\* characters: none for a Block without text, 0.8 for a short one, 0.5
\* for a middling one and 0.9 for a long one.
Confidence(n) ==
    IF n = 0 THEN None
    ELSE IF n < 50 THEN Some(800)
    ELSE IF n < 80 THEN Some(500)
    ELSE Some(900)

\* a Block of a stage file; confidence is None when the key is missing
RunBlock(t, b, c) == [text |-> t, bbox |-> b, confidence |-> c]

\* json.load of a readable page file
json_load(contents, page_num, stage_key) ==
    LET lens == contents[((page_num - 1) % Len(contents)) + 1][stage_key]
    IN [i \in 1..Len(lens) |->
          RunBlock(Chars(lens[i]), <<0, 20 * i, 50, 20 * i + 15>>,
                   Confidence(lens[i]))]

\* content_changes.get("medical_terms_preserved", 1.0)
GetPreserved(changes) ==
    IF "medical_terms_preserved" \in DOMAIN changes
    THEN changes["medical_terms_preserved"] ELSE Rat(1)

\* the StageMetrics fields from the text statistics, the confidences, the
\* valid boxes and the change record against the previous stage (None
\* without one)
StageMetrics(stats, confidences, valid_bboxes, content_changes_) ==
    [total_chars |-> stats.total_chars,
     mean_confidence |->
         IF confidences # <<>>
         THEN Norm(<<SumOf(confidences), One * Len(confidences)>>) ELSE Zero,
     low_confidence_blocks |->
         Len(SelectSeq(confidences, LAMBDA c : c < ConfidenceThreshold)),
     medical_terms_preserved |->
         IF content_changes_ = None THEN Zero
         ELSE GetPreserved(Val(content_changes_)),
     total_words |-> stats.total_words,
     total_blocks |-> stats.block_count,
     unique_words |-> stats.unique_words,
     empty_blocks |-> stats.empty_blocks,
     total_bbox_area |->
         IF valid_bboxes # <<>>
         THEN Max2(0, SumOf([i \in 1..Len(valid_bboxes) |->
                               (valid_bboxes[i][3] - valid_bboxes[i][1])
                                 * (valid_bboxes[i][4] - valid_bboxes[i][2])]))
         ELSE 0,
     reading_order_score |->
         IF valid_bboxes # <<>>
         THEN calculate_reading_order_score(valid_bboxes) ELSE Zero,
     chars_added |->
         IF content_changes_ = None THEN 0
         ELSE Max2(0, Val(content_changes_).chars_delta),
     chars_removed |->
         IF content_changes_ = None THEN 0
         ELSE Max2(0, 0 - Val(content_changes_).chars_delta),
     words_added |->
         IF content_changes_ = None THEN 0
         ELSE Max2(0, Val(content_changes_).words_delta),
     words_removed |->
         IF content_changes_ = None THEN 0
         ELSE Max2(0, 0 - Val(content_changes_).words_delta),
     blocks_added |->
         IF content_changes_ = None THEN 0
         ELSE Max2(0, Val(content_changes_).blocks_delta),
     blocks_removed |->
         IF content_changes_ = None THEN 0
         ELSE Max2(0, 0 - Val(content_changes_).blocks_delta)]

\* The StageMetrics of one page at one stage, None when the page file is
\* missing or cannot be loaded.  No spaCy model is loaded, and the count of
\* medical terms is left out.
evaluate_page_stage(file, current_blocks, prev_blocks) ==
    IF file # "readable" THEN None
    ELSE Some(StageMetrics(
            extract_text_stats(current_blocks),
            [i \in 1..Len(SelectSeq(current_blocks, LAMBDA b : b.confidence # None)) |->
                Val(SelectSeq(current_blocks, LAMBDA b : b.confidence # None)[i].confidence)],
            Field(SelectSeq(current_blocks,
                            LAMBDA b : b.bbox # <<>> /\ Len(b.bbox) = 4), "bbox"),
            IF prev_blocks = None THEN None
            ELSE Some(analyze_content_changes(Val(prev_blocks), current_blocks).metrics)))

\* the stage loop of one page: page_eval.stages in insertion order, and the
\* Blocks of the last stage that gave metrics
RECURSIVE EvaluateStages(_, _, _, _, _, _)
EvaluateStages(stage_dirs, page_num, files, contents, prev_blocks, stages) ==
    IF stage_dirs = <<>> THEN [stages |-> stages, prev_blocks |-> prev_blocks]
    ELSE LET stage_key == Head(stage_dirs)
             current_blocks == json_load(contents, page_num, stage_key)
             stage_metrics == evaluate_page_stage(files[page_num][stage_key],
                                                  current_blocks, prev_blocks)
         IN IF stage_metrics # None
            THEN EvaluateStages(Tail(stage_dirs), page_num, files, contents,
                                Some(current_blocks),
                                Append(stages, [stage |-> stage_key,
                                                metrics |-> Val(stage_metrics)]))
            ELSE EvaluateStages(Tail(stage_dirs), page_num, files, contents,
                                prev_blocks, stages)

\* The ground truth of a page: "absent" (no ground_truth_dir or no file for
\* the page), "ok", or "fails" (the file exists and loading or comparing it
\* raises).  The result dict holds the error rates, or only "error"; the
\* rates themselves (difflib ratios) are not computed here.
evaluate_against_ground_truth(gt) ==
    IF gt = "ok"
    THEN [character_error_rate |-> "number", word_error_rate |-> "number",
          bleu_score |-> "number", edit_distance |-> "number"]
    ELSE [error |-> "Ground truth evaluation failed"]

\* slip of the metric lookup: 0.0 instead of NaN when the key is missing
GetMetricZero(gt_metrics, key) ==
    IF key \in DOMAIN gt_metrics THEN gt_metrics[key] ELSE "number"

\* gt_metrics.get(key, float('nan'))
GetMetric(gt_metrics, key) ==
    IF key \in DOMAIN gt_metrics THEN gt_metrics[key] ELSE "NaN"

\* the PageEvaluation from the outcome r of the page's stage loop
PageEvaluation(page_num, r, gt) ==
    LET evaluated == /\ gt # "absent"
                     /\ r.prev_blocks # None
                     /\ Val(r.prev_blocks) # <<>>
    IN [page_number |-> page_num,
        stages |-> r.stages,
        ground_truth_file |-> gt # "absent",
        word_error_rate |->
            IF evaluated
            THEN GetMetric(evaluate_against_ground_truth(gt), "word_error_rate")
            ELSE "NaN",
        character_error_rate |->
            IF evaluated
            THEN GetMetric(evaluate_against_ground_truth(gt), "character_error_rate")
            ELSE "NaN"]

\* one page of the run
EvaluatePage(stage_dirs, page_num, files, contents, gt) ==
    PageEvaluation(page_num,
                   EvaluateStages(stage_dirs, page_num, files, contents, None, <<>>),
                   gt)

\* the stage of a page's records that comes first / last in stage_mapping
FirstStage(stages) ==
    CHOOSE i \in 1..Len(stages) :
        \A j \in 1..Len(stages) : StageIndex(stages[i].stage) <= StageIndex(stages[j].stage)
LastStage(stages) ==
    CHOOSE i \in 1..Len(stages) :
        \A j \in 1..Len(stages) : StageIndex(stages[i].stage) >= StageIndex(stages[j].stage)

\* slip of the total content drop: initial and final swapped
ContentDropSwapped(initial_chars, final_chars) ==
    RatSub(Rat(1), <<initial_chars, Max2(final_chars, 1)>>)

\* 1 - (final_chars / max(initial_chars, 1))
ContentDrop(initial_chars, final_chars) ==
    RatSub(Rat(1), <<final_chars, Max2(initial_chars, 1)>>)

\* slip of the threshold test: "less than" for "greater than"
ExceedsMaxContentDropInverted(content_drop) == RatLt(content_drop, MaxContentDrop)

\* content_drop > config["max_content_drop"] as the doubles decide it: the
\* double 0.15 lies below 15/100 and 1 - 0.85 is computed as
\* 0.15000000000000002, so a drop of exactly 15/100 compares greater.
ExceedsMaxContentDrop(content_drop) == ~RatLt(content_drop, MaxContentDrop)

\* slip of the composite score: the weights of confidence and reading
\* order swapped
QualityScoreSwapped(metrics) ==
    Norm(RatAdd(Norm(RatAdd(RatMul(metrics.mean_confidence, <<3, 10>>),
                            RatMul(metrics.reading_order_score, <<4, 10>>))),
                RatMul(metrics.medical_terms_preserved, <<3, 10>>)))

\* the composite quality score of one stage of one page
QualityScore(metrics) ==
    Norm(RatAdd(Norm(RatAdd(RatMul(metrics.mean_confidence, <<4, 10>>),
                            RatMul(metrics.reading_order_score, <<3, 10>>))),
                RatMul(metrics.medical_terms_preserved, <<3, 10>>)))

\* stage_scores of one stage: the scores of the pages that have it, in the
\* order of evaluation.pages
StageScores(pages, stage) ==
    LET has(pe) == \E k \in 1..Len(pe.stages) : pe.stages[k].stage = stage
        at(pe) == pe.stages[CHOOSE k \in 1..Len(pe.stages) : pe.stages[k].stage = stage]
        with == SelectSeq(pages, has)
    IN [i \in 1..Len(with) |-> QualityScore(at(with[i]).metrics)]

\* one mean per stage of stage_mapping that has scores
QualityTrend(pages) ==
    LET scored == SelectSeq(stage_mapping, LAMBDA stage : StageScores(pages, stage) # <<>>)
    IN [i \in 1..Len(scored) |-> np_mean(StageScores(pages, scored[i]))]

\* f"{x:.1%}": x in tenths of a percent, rounded
PerMille(x) == (2 * 1000 * x[1] + x[2]) \div (2 * x[2])

\* a recommendation: its level, what it is about and the numbers its text
\* carries
Recommendation(level, about, detail) ==
    [level |-> level, about |-> about, detail |-> detail]

\* (quality_trend[-1] - quality_trend[0]) / len(quality_trend)
TrendSlope(quality_trend) ==
    RatMul(RatSub(quality_trend[Len(quality_trend)], quality_trend[1]),
           <<1, Len(quality_trend)>>)

generate_recommendations(total_content_drop, problematic_pages, quality_trend, total_low_conf) ==
    (IF ExceedsMaxContentDrop(total_content_drop)
     THEN <<Recommendation("HIGH", "content loss", <<PerMille(total_content_drop)>>)>>
     ELSE <<>>)
    \o (IF problematic_pages # <<>>
        THEN <<Recommendation("MEDIUM", "pages", problematic_pages)>> ELSE <<>>)
    \o (IF Len(quality_trend) >= 2 /\ RatLt(TrendSlope(quality_trend), <<-1, 10>>)
        THEN <<Recommendation("MEDIUM", "quality decreases", <<>>)>> ELSE <<>>)
    \o (IF total_low_conf > 0
        THEN <<Recommendation("LOW", "low confidence", <<total_low_conf>>)>> ELSE <<>>)

\* the sum over all pages and stages of low_confidence_blocks
TotalLowConf(pages) ==
    SumOf([i \in 1..Len(pages) |->
             SumOf([k \in 1..Len(pages[i].stages) |->
                      pages[i].stages[k].metrics.low_confidence_blocks])])

\* the sums of the first and of the last stage's characters over the pages
\* that have a stage
InitialChars(with_stages) ==
    SumOf([i \in 1..Len(with_stages) |->
             with_stages[i].stages[FirstStage(with_stages[i].stages)]
                 .metrics.total_chars])
FinalChars(with_stages) ==
    SumOf([i \in 1..Len(with_stages) |->
             with_stages[i].stages[LastStage(with_stages[i].stages)]
                 .metrics.total_chars])

\* a page with two stages or more whose content drop exceeds the limit
Problematic(pe) ==
    /\ Len(pe.stages) >= 2
    /\ ExceedsMaxContentDrop(
           ContentDrop(pe.stages[1].metrics.total_chars,
                       pe.stages[Len(pe.stages)].metrics.total_chars))

\* the aggregate fields once drop, trend and problematic pages are known
Aggregate_(pages, total_content_drop, quality_trend, problematic_pages) ==
    [total_content_drop |-> total_content_drop,
     quality_trend |-> quality_trend,
     problematic_pages |-> problematic_pages,
     recommended_actions |->
         generate_recommendations(total_content_drop, problematic_pages,
                                  quality_trend, TotalLowConf(pages)),
     quality_score |-> IF quality_trend # <<>> THEN np_mean(quality_trend) ELSE Zero]

\* The aggregate metrics of the evaluated pages (in the order of
\* evaluation.pages); without pages everything keeps its default.
calculate_aggregate_metrics(pages) ==
    IF pages = <<>>
    THEN [total_content_drop |-> Zero, quality_trend |-> <<>>,
          problematic_pages |-> <<>>, recommended_actions |-> <<>>,
          quality_score |-> Zero]
    ELSE Aggregate_(pages,
                    ContentDrop(
                        InitialChars(SelectSeq(pages, LAMBDA pe : pe.stages # <<>>)),
                        FinalChars(SelectSeq(pages, LAMBDA pe : pe.stages # <<>>))),
                    QualityTrend(pages),
                    Field(SelectSeq(pages, Problematic), "page_number"))

\* outcome of a run evaluation
ValueError == [status |-> "raised", error |-> "ValueError"]
Evaluation(pages, aggregate) ==
    [status |-> "returned", pages |-> pages,
     total_content_drop |-> aggregate.total_content_drop,
     quality_trend |-> aggregate.quality_trend,
     problematic_pages |-> aggregate.problematic_pages,
     recommended_actions |-> aggregate.recommended_actions,
     quality_score |-> aggregate.quality_score]

\* dirs: which stage directories exist; files: for every page and stage
\* "missing", "unreadable" or "readable"; the pages are those with a file in
\* the first stage directory that exists.  The report written at the end
\* does not change the evaluation.
evaluate_pipeline_run(dirs, files, contents, ground_truth_) ==
    LET stage_dirs == SelectSeq(stage_mapping,
                                LAMBDA stage : stage \in DOMAIN dirs /\ dirs[stage])
        first_stage == stage_dirs[1]
        page_files == SelectSeq([i \in 1..MaxPages |-> MaxPages + 1 - i],
                                LAMBDA n : files[n][first_stage] # "missing")
        page_numbers == SortBy(page_files, LAMBDA a, b : a < b)
        pages == [i \in 1..Len(page_numbers) |->
                    EvaluatePage(stage_dirs, page_numbers[i], files, contents,
                                 ground_truth_[page_numbers[i]])]
    IN IF stage_dirs = <<>> THEN ValueError
       ELSE Evaluation(pages, calculate_aggregate_metrics(pages))

\* ---------------------------------------------------------- /ocr handlers
\* What goes wrong while a request is served: nothing, loading the model
\* (get_ocr, get_reader, get_predictors), or reading the image and running
\* the engine on it.  paddle's retry through a temporary file is part of
\* running the engine.
Faults == {"none", "load", "inference"}

JSONResponse(body, status_code) ==
    [kind |-> "json", status_code |-> status_code, body |-> body]
\* an exception that leaves the handler
Escaped(error) == [kind |-> "exception", error |-> error]
NoResponse == [kind |-> "none"]

\* tesseract: no model to load; the parser runs after the try block
ocr_tesseract(fault, d) ==
    LET r == parse_tess_output(d)
    IN IF fault = "inference"
       THEN JSONResponse([blocks |-> <<>>, engine |-> "tesseract",
                          error |-> "str(e)", traceback |-> "format_exc()"], 500)
       ELSE IF r.status = "raised" THEN Escaped("KeyError")
       ELSE JSONResponse([engine |-> "tesseract", blocks |-> r.blocks,
                          meta |-> "lang, handwritten"], 200)

\* paddle: one try around get_ocr, one around the engine; the parser runs
\* after both
ocr_paddle(fault, res) ==
    LET r == parse_paddle_output(res)
    IN IF fault = "load"
       THEN JSONResponse([blocks |-> <<>>, engine |-> "paddleocr",
                          error |-> "str(e)"], 500)
       ELSE IF fault = "inference"
       THEN JSONResponse([blocks |-> <<>>, engine |-> "paddleocr",
                          error |-> "str(e)", traceback |-> "format_exc()"], 500)
       ELSE IF r.status = "raised" THEN Escaped("KeyError")
       ELSE JSONResponse([engine |-> "paddleocr", blocks |-> r.blocks,
                          meta |-> "lang, handwritten"], 200)

\* easyocr and surya: loading, running and parsing inside one try
ocr_easy(fault, results) ==
    LET r == parse_easy_output(results)
    IN IF fault # "none" \/ r.status = "raised"
       THEN JSONResponse([engine |-> "easyocr", blocks |-> <<>>,
                          error |-> "str(e)", traceback |-> "format_exc()"], 500)
       ELSE JSONResponse([engine |-> "easyocr", blocks |-> r.blocks,
                          meta |-> "lang, handwritten"], 200)

ocr_surya(fault, text_lines) ==
    LET r == parse_surya_output(text_lines)
    IN IF fault # "none" \/ r.status = "raised"
       THEN JSONResponse([engine |-> "surya", blocks |-> <<>>,
                          error |-> "str(e)", traceback |-> "error_detail"], 500)
       ELSE JSONResponse([engine |-> "surya", blocks |-> r.blocks,
                          meta |-> "lang, handwritten"], 200)

\* ---------------------------------------------------------- model loading
\* longest sequence of loads in one process
MaxLoads == 3

\* the keys a model is loaded for: language and handwritten flag
Langs == {"en", "hi"}
Keys == Langs \X BOOLEAN

\* the n-th engine object built for a key
Instance(key, n) == [key |-> key, n |-> n]

\* outcome of a load: the object handed back, whether it was built by this
\* call, and the cache afterwards
Loaded(instance, built, cache) ==
    [status |-> "returned", instance |-> instance, built |-> built, cache |-> cache]
LoadFailed(cache) ==
    [status |-> "raised", error |-> "RuntimeError", built |-> FALSE, cache |-> cache]
NoLoad == [status |-> "idle"]

\* get_reader: _READERS is a dict keyed by (str(langs), handwritten); fails
\* says whether importing easyocr or building the Reader raises
get_reader(READERS, key, fails, n) ==
    IF READERS[key] # None THEN Loaded(Val(READERS[key]), FALSE, READERS)
    ELSE IF fails THEN LoadFailed(READERS)
    ELSE Loaded(Instance(key, n), TRUE, [READERS EXCEPT ![key] = Some(Instance(key, n))])

\* get_ocr: _MODELS is a dict keyed by (lang, handwritten)
get_ocr(MODELS, key, fails, n) ==
    IF MODELS[key] # None THEN Loaded(Val(MODELS[key]), FALSE, MODELS)
    ELSE IF fails THEN LoadFailed(MODELS)
    ELSE Loaded(Instance(key, n), TRUE, [MODELS EXCEPT ![key] = Some(Instance(key, n))])

\* get_model of docTR: one slot, _MODEL with the language _LANG it was
\* built for; the slot is overwritten when another language is asked for
get_model(slot, key, fails, n) ==
    IF slot.MODEL # None /\ slot.LANG = Some(key[1])
    THEN Loaded(Val(slot.MODEL), FALSE, slot)
    ELSE IF fails THEN LoadFailed(slot)
    ELSE Loaded(Instance(key, n), TRUE,
                [MODEL |-> Some(Instance(key, n)), LANG |-> Some(key[1])])

\* ------------------------------------------------------- engine selection
\* most Blocks in one /ocr response
MaxResultBlocks == 2

\* the services of the flow, in the order the results are gathered
mcp_services == <<"tesseract", "easyocr", "paddle", "surya">>

\* What a POST to /ocr comes to: the request raises (service gone,
\* timeout), or an HTTP answer whose JSON body is the object the handlers
\* build, {"engine": ..., "blocks": [...], ...}.
RequestError == [kind |-> "exception"]
HttpResponse(status_code, engine_name, n) ==
    [kind |-> "http", status_code |-> status_code,
     json |-> [type |-> "dict", engine |-> engine_name,
               blocks |-> [i \in 1..n |-> "block"]]]

OcrResponses(engine_name) ==
    {RequestError, HttpResponse(500, engine_name, 0)}
        \cup {HttpResponse(200, engine_name, n) : n \in 0..MaxResultBlocks}

\* len(result) if isinstance(result, list) else 0
BlocksCount(result) == IF result.type = "list" THEN Len(result.items) ELSE 0

process_with_mcp_engine(engine_name, response) ==
    IF response.kind = "exception"
    THEN [engine |-> engine_name, status |-> "error", error |-> "str(e)"]
    ELSE IF response.status_code = 200
    THEN [engine |-> engine_name, status |-> "success", result |-> response.json,
          blocks_count |-> BlocksCount(response.json)]
    ELSE [engine |-> engine_name, status |-> "failed", error |-> "HTTP status"]

\* x.get("blocks_count", 0)
GetBlocksCount(x) == IF "blocks_count" \in DOMAIN x THEN x.blocks_count ELSE 0

\* max(successful_results, key=...): the first of the greatest
select_best_ocr_result(results) ==
    LET successful_results == SelectSeq(results, LAMBDA r : r.status = "success")
        best == CHOOSE i \in 1..Len(successful_results) :
                    /\ \A j \in 1..Len(successful_results) :
                          GetBlocksCount(successful_results[j])
                              <= GetBlocksCount(successful_results[i])
                    /\ \A j \in 1..(i - 1) :
                          GetBlocksCount(successful_results[j])
                              < GetBlocksCount(successful_results[i])
    IN IF successful_results = <<>>
       THEN [status |-> "failed", error |-> "All OCR engines failed"]
       ELSE successful_results[best]

\* ---------------------------------------------------- waiting for services
\* how many services are configured
NumServices == 2
\* how many rounds of probes fit before the timeout (timeout / interval)
MaxRounds == 3

\* the configured services
SERVICES == {mcp_services[i] : i \in 1..NumServices}

\* What a GET /health comes to: an HTTP answer with a status code, or the
\* request raises (connection refused).
HealthAnswers == {[kind |-> "http", status_code |-> 200],
                  [kind |-> "http", status_code |-> 503],
                  [kind |-> "refused"]}

\* scripts/health_check.py
check_service_health(answer) ==
    IF answer.kind = "http"
    THEN IF answer.status_code = 200 THEN "healthy" ELSE "unhealthy"
    ELSE "unreachable"

check_all_services(services, answers) ==
    [s \in services |-> check_service_health(answers[s])]

\* one pass of the loop of health_check.wait_for_services: TRUE when it
\* returns True, FALSE when it sleeps and goes round again
HealthCheckPass(services, answers) ==
    LET results == check_all_services(services, answers)
        healthy == {s \in services : results[s] = "healthy"}
    IN Cardinality(healthy) = Cardinality(services)

\* scripts/run_pipeline.py: the services the pass adds to ready_services
NewlyReady(ready, answers) ==
    {s \in SERVICES \ ready :
        /\ answers[s].kind = "http"
        /\ answers[s].status_code = 200}

RunPipelinePass(ready, answers) == ready \cup NewlyReady(ready, answers)

\* ------------------------------------------------------- quick QA check
\* the highest page number of a page file
MaxPageNo == 2

\* File names are sequences of characters.
Digits == <<"0", "1", "2", "3", "4", "5", "6", "7", "8", "9">>
IsDigit(c) == \E i \in 1..10 : Digits[i] = c
DigitValue(c) == (CHOOSE i \in 1..10 : Digits[i] = c) - 1

PagePrefix == <<"p", "a", "g", "e", "_">>
JsonSuffix == <<".", "j", "s", "o", "n">>

\* f"{n:03d}"
Format03d(n) ==
    <<Digits[((n \div 100) % 10) + 1], Digits[((n \div 10) % 10) + 1],
      Digits[(n % 10) + 1]>>

\* the file a stage writes for page n, and a file that is no page file
PageFileName(n) == PagePrefix \o Format03d(n) \o JsonSuffix
SummaryFileName == <<"s", "u", "m", "m", "a", "r", "y">> \o JsonSuffix

FileNames == {PageFileName(n) : n \in 0..MaxPageNo} \cup {SummaryFileName}

\* name[i..] starts with the characters of part
StartsAt(name, i, part) ==
    /\ i + Len(part) - 1 <= Len(name)
    /\ \A k \in 1..Len(part) : name[i + k - 1] = part[k]

StartsWith(name, part) == StartsAt(name, 1, part)
EndsWith(name, part) ==
    /\ Len(part) <= Len(name)
    /\ StartsAt(name, Len(name) - Len(part) + 1, part)

\* int(digits)
RECURSIVE ParseInt(_)
ParseInt(digits) ==
    IF digits = <<>> THEN 0
    ELSE 10 * ParseInt(SubSeq(digits, 1, Len(digits) - 1))
             + DigitValue(digits[Len(digits)])

\* the longest run of digits that starts at name[i]
RECURSIVE DigitRun(_, _)
DigitRun(name, i) ==
    IF i <= Len(name) /\ IsDigit(name[i])
    THEN <<name[i]>> \o DigitRun(name, i + 1)
    ELSE <<>>

\* re.search(r'page_(\d+)', name): group 1 of the leftmost match, or None
PageSearch(name) ==
    LET starts == {i \in 1..Len(name) :
                      /\ StartsAt(name, i, PagePrefix)
                      /\ DigitRun(name, i + Len(PagePrefix)) # <<>>}
        first == CHOOSE i \in starts : \A j \in starts : i <= j
    IN IF starts = {} THEN None
       ELSE Some(DigitRun(name, first + Len(PagePrefix)))

extract_page_number(filename) ==
    IF PageSearch(filename) = None THEN None
    ELSE Some(ParseInt(Val(PageSearch(filename))))

\* Python's truth value of an Optional[int]
Truthy(page_num) == page_num # None /\ Val(page_num) # 0

\* the Blocks a readable file of the stage holds
FileBlocks(name) == <<RunBlock(Chars(Len(name)), <<0, 0, 50, 15>>, Some(900))>>

\* stage_dir.glob(pattern) for the three patterns of the code, over the
\* files that exist
GlobJson(files) ==
    {f \in DOMAIN files : files[f] # "missing" /\ EndsWith(f, JsonSuffix)}
GlobPage(files) ==
    {f \in GlobJson(files) :
        /\ StartsWith(f, PagePrefix)
        /\ Len(f) >= Len(PagePrefix) + Len(JsonSuffix)}
GlobPageNum(files, n) ==
    {f \in GlobJson(files) :
        /\ StartsWith(f, PagePrefix \o Format03d(n))
        /\ Len(f) >= Len(PagePrefix) + 3 + Len(JsonSuffix)}

\* what a reader of the stage directory returned
Result(v) == [status |-> "returned", value |-> v]

\* quick_qa_check.load_stage_data: the dict from page number to entry
load_stage_data(exists, files) ==
    LET loaded == {f \in GlobJson(files) :
                      /\ Truthy(extract_page_number(f))
                      /\ files[f] = "readable"}
        nums == {Val(extract_page_number(f)) : f \in loaded}
    IN IF ~exists THEN <<>>
       ELSE [n \in nums |->
               LET f == CHOOSE g \in loaded : Val(extract_page_number(g)) = n
               IN [blocks |-> FileBlocks(f), file |-> f]]

\* evaluate_pipeline_run on a run whose first stage directory is this one:
\* the pages that get metrics for the stage
EvaluatedPages(exists, files) ==
    LET page_numbers == {Val(extract_page_number(f)) :
                            f \in {g \in GlobPage(files) : extract_page_number(g) # None}}
    IN IF ~exists THEN ValueError
       ELSE Result({n \in page_numbers :
                      /\ GlobPageNum(files, n) # {}
                      /\ \E f \in GlobPageNum(files, n) : files[f] = "readable"})

\* ------------------------------------------------------------------ state
VARIABLES
    input,      \* the raw detections of the page being parsed
    engine,     \* the adapter whose parser ran last
    status,     \* "idle", "returned" or "raised"
    blocks,     \* the Block list the parser returned
    dets,       \* the normalized detections the parser built
    box1, box2, \* the two boxes handed to the IoU computation
    iou,        \* its result
    before_blocks, after_blocks,    \* the Blocks of two stages of one page
    content_changes,                \* outcome of analyze_content_changes
    layout_changes,                 \* outcome of analyze_layout_changes
    run_dirs,       \* the stage directories of the run directory
    run_files,      \* the state of every page file of every stage
    run_contents,   \* what the readable page files hold
    ground_truth,   \* the state of every page's ground-truth file
    evaluation,     \* outcome of evaluate_pipeline_run
    request_fault,  \* what goes wrong while the /ocr request is served
    response,       \* what the /ocr handler answered
    order_bboxes,   \* the boxes handed to the reading-order score
    order_score,    \* its result
    READERS,        \* easyocr: _READERS
    MODELS,         \* paddle: _MODELS
    DOCTR,          \* docTR: _MODEL and _LANG
    constructed,    \* how many engine objects were built, per adapter and key
    load,           \* the adapter, key and outcome of the last load
    loads,          \* how many loads the process has served
    engine_responses,   \* what each service answers to the flow's POST /ocr
    ocr_results,        \* the results of the engine tasks that have finished
    best_result,        \* what select_best_ocr_result returned
    health,             \* what each service answers to /health in this round
    round,              \* the rounds of probes the services have been through
    ready_services,     \* run_pipeline.wait_for_services: the services seen ready
    run_round,          \* run_pipeline.wait_for_services: passes made
    run_outcome,        \* run_pipeline.wait_for_services: what it returned
    hc_round,           \* health_check.wait_for_services: passes made
    hc_outcome,         \* health_check.wait_for_services: what it returned
    stage_exists,       \* whether the stage directory exists
    stage_files,        \* the files of the stage directory
    stage_data,         \* what load_stage_data returned
    stage_pages         \* the pages evaluate_pipeline_run evaluated for the stage

parseVars == <<input, engine, status, blocks, dets>>
iouVars == <<box1, box2, iou>>
compareVars == <<before_blocks, after_blocks, content_changes, layout_changes>>
runVars == <<run_dirs, run_files, run_contents, ground_truth, evaluation>>
ocrVars == <<request_fault, response>>
orderVars == <<order_bboxes, order_score>>
cacheVars == <<READERS, MODELS, DOCTR, constructed, load, loads>>
selectVars == <<engine_responses, ocr_results, best_result>>
waitVars == <<health, round, ready_services, run_round, run_outcome, hc_round, hc_outcome>>
quickVars == <<stage_exists, stage_files, stage_data, stage_pages>>
laterVars == <<orderVars, cacheVars, selectVars, waitVars, quickVars>>

vars == <<parseVars, iouVars, compareVars, runVars, ocrVars, laterVars>>

\* the comparator has not been given anything
CompareIdle ==
    /\ before_blocks = <<>>
    /\ after_blocks = <<>>
    /\ content_changes = NotCalled
    /\ layout_changes = NotCalled

\* no run directory has been given
RunIdle ==
    /\ run_dirs = [s \in RunStages |-> FALSE]
    /\ run_files = [p \in Pages |-> [s \in RunStages |-> "missing"]]
    /\ run_contents = <<Profile(<<>>, <<>>, <<>>)>>
    /\ ground_truth = [p \in Pages |-> "absent"]
    /\ evaluation = NotCalled

\* no /ocr request has been made
OcrIdle ==
    /\ request_fault = "none"
    /\ response = NoResponse

\* no box list has been scored
OrderIdle ==
    /\ order_bboxes = <<>>
    /\ order_score = None

\* the adapters whose loader takes a key
LoadAdapters == {"easyocr", "paddle", "doctr"}

\* a process that has loaded nothing
CacheIdle ==
    /\ READERS = [k \in Keys |-> None]
    /\ MODELS = [k \in Keys |-> None]
    /\ DOCTR = [MODEL |-> None, LANG |-> None]
    /\ constructed = [a \in LoadAdapters |-> [k \in Keys |-> 0]]
    /\ load = NoLoad
    /\ loads = 0

\* the engines of the flow
Engines == {mcp_services[i] : i \in 1..Len(mcp_services)}

\* no flow is running
SelectIdle ==
    /\ engine_responses = [e \in Engines |-> RequestError]
    /\ ocr_results = [e \in Engines |-> None]
    /\ best_result = None

\* nobody waits for the services
WaitIdle ==
    /\ health = [s \in SERVICES |-> [kind |-> "refused"]]
    /\ round = 0
    /\ ready_services = {}
    /\ run_round = 0
    /\ run_outcome = None
    /\ hc_round = 0
    /\ hc_outcome = None

\* no stage directory is looked at
QuickIdle ==
    /\ stage_exists = FALSE
    /\ stage_files = [f \in FileNames |-> "missing"]
    /\ stage_data = NotCalled
    /\ stage_pages = NotCalled

\* the parts of the state that belong to the subsystem named g are left
\* to its own specification; all others are idle / stay as they are
LaterIdleExcept(g) ==
    /\ IF g = "order" THEN TRUE ELSE OrderIdle
    /\ IF g = "cache" THEN TRUE ELSE CacheIdle
    /\ IF g = "select" THEN TRUE ELSE SelectIdle
    /\ IF g = "wait" THEN TRUE ELSE WaitIdle
    /\ IF g = "quick" THEN TRUE ELSE QuickIdle

LaterUnchangedExcept(g) ==
    /\ IF g = "order" THEN TRUE ELSE UNCHANGED orderVars
    /\ IF g = "cache" THEN TRUE ELSE UNCHANGED cacheVars
    /\ IF g = "select" THEN TRUE ELSE UNCHANGED selectVars
    /\ IF g = "wait" THEN TRUE ELSE UNCHANGED waitVars
    /\ IF g = "quick" THEN TRUE ELSE UNCHANGED quickVars

LaterIdle == LaterIdleExcept("none")

Init ==
    /\ LaterIdle
    /\ input \in RawLists
    /\ engine = "none"
    /\ status = "idle"
    /\ blocks = <<>>
    /\ dets = <<>>
    /\ box1 = <<0, 0, 0, 0>>
    /\ box2 = <<0, 0, 0, 0>>
    /\ iou = None
    /\ CompareIdle
    /\ RunIdle
    /\ OcrIdle

\* one call of an adapter's parser on the page's raw detections
Parse(e, r) ==
    /\ engine' = e
    /\ status' = r.status
    /\ blocks' = r.blocks
    /\ dets' = r.dets
    /\ UNCHANGED <<input, iouVars, compareVars, runVars, ocrVars, laterVars>>

ParseSurya == Parse("surya", parse_surya_output(input))
ParsePaddle == Parse("paddle", parse_paddle_output(input))
ParseEasy == Parse("easyocr", parse_easy_output(input))
ParseTess ==
    Parse("tesseract", parse_tess_output([i \in 1..Len(input) |-> TessRow(input[i])]))
ParseDoctr == Parse("doctr", parse_doctr_output(input))
ParseNanonets == Parse("nanonets", parse_nanonets_output(input))
ParseChandra == Parse("chandra", parse_chandra_output(input))
ParseDocling == Parse("docling", extract_blocks_from_docling(input))
ParseDots == Parse("dots", parse_dots_result(input))

Next ==
    \/ ParseSurya
    \/ ParsePaddle
    \/ ParseEasy
    \/ ParseTess
    \/ ParseDoctr
    \/ ParseNanonets
    \/ ParseChandra
    \/ ParseDocling
    \/ ParseDots

Spec == Init /\ [][Next]_vars

\* the layout comparison's IoU on one pair of boxes
InitIoU ==
    /\ LaterIdle
    /\ input = <<>>
    /\ engine = "none"
    /\ status = "idle"
    /\ blocks = <<>>
    /\ dets = <<>>
    /\ box1 \in Boxes
    /\ box2 \in Boxes
    /\ iou = None
    /\ CompareIdle
    /\ RunIdle
    /\ OcrIdle

CalculateBboxIou ==
    /\ iou' = calculate_bbox_iou(box1, box2)
    /\ UNCHANGED <<parseVars, box1, box2, compareVars, runVars, ocrVars, laterVars>>

NextIoU == CalculateBboxIou

SpecIoU == InitIoU /\ [][NextIoU]_vars

\* the parsers and the IoU computation have not been given anything
ParseIdle ==
    /\ input = <<>>
    /\ engine = "none"
    /\ status = "idle"
    /\ blocks = <<>>
    /\ dets = <<>>

IoUIdle ==
    /\ box1 = <<0, 0, 0, 0>>
    /\ box2 = <<0, 0, 0, 0>>
    /\ iou = None

\* the stage comparator on the Blocks of two stages of one page
InitCompare ==
    /\ LaterIdle
    /\ ParseIdle
    /\ IoUIdle
    /\ RunIdle
    /\ OcrIdle
    /\ before_blocks \in StageLists
    /\ after_blocks \in StageLists
    /\ content_changes = NotCalled
    /\ layout_changes = NotCalled

AnalyzeContentChanges ==
    /\ content_changes' = analyze_content_changes(before_blocks, after_blocks)
    /\ UNCHANGED <<parseVars, iouVars, runVars, ocrVars, laterVars, before_blocks, after_blocks, layout_changes>>

AnalyzeLayoutChanges ==
    /\ layout_changes' =
           analyze_layout_changes(before_blocks, after_blocks, ImgW, ImgH)
    /\ UNCHANGED <<parseVars, iouVars, runVars, ocrVars, laterVars, before_blocks, after_blocks, content_changes>>

NextCompare ==
    \/ AnalyzeContentChanges
    \/ AnalyzeLayoutChanges

SpecCompare == InitCompare /\ [][NextCompare]_vars

\* a run directory: a stage directory exists whenever it holds a page file
RunDirectories ==
    /\ run_files \in [Pages -> [RunStages -> {"missing", "unreadable", "readable"}]]
    /\ run_dirs \in [RunStages -> BOOLEAN]
    /\ \A s \in RunStages :
          (\E p \in Pages : run_files[p][s] # "missing") => run_dirs[s]
    /\ run_contents \in RunContents

\* evaluation of a run directory without ground truth
InitRun ==
    /\ LaterIdle
    /\ ParseIdle
    /\ IoUIdle
    /\ CompareIdle
    /\ OcrIdle
    /\ RunDirectories
    /\ ground_truth = [p \in Pages |-> "absent"]
    /\ evaluation = NotCalled

EvaluatePipelineRun ==
    /\ evaluation' = evaluate_pipeline_run(run_dirs, run_files, run_contents, ground_truth)
    /\ UNCHANGED <<parseVars, iouVars, compareVars, ocrVars, laterVars,
                   run_dirs, run_files, run_contents, ground_truth>>

NextRun == EvaluatePipelineRun

SpecRun == InitRun /\ [][NextRun]_vars

\* evaluation of a run directory against a ground-truth directory; page
\* files are readable or missing
InitRunGT ==
    /\ LaterIdle
    /\ ParseIdle
    /\ IoUIdle
    /\ CompareIdle
    /\ OcrIdle
    /\ RunDirectories
    /\ \A p \in Pages : \A s \in RunStages : run_files[p][s] # "unreadable"
    /\ \A s \in RunStages : run_dirs[s]
    /\ ground_truth \in [Pages -> {"absent", "ok", "fails"}]
    /\ evaluation = NotCalled

SpecRunGT == InitRunGT /\ [][NextRun]_vars

\* one /ocr request to an adapter: the engine returns input unless the
\* request's fault strikes first
InitOcr ==
    /\ LaterIdle
    /\ input \in RawLists
    /\ engine = "none"
    /\ status = "idle"
    /\ blocks = <<>>
    /\ dets = <<>>
    /\ IoUIdle
    /\ CompareIdle
    /\ RunIdle
    /\ request_fault \in Faults
    /\ response = NoResponse

Ocr(e, answer) ==
    /\ engine' = e
    /\ response' = answer
    /\ UNCHANGED <<input, status, blocks, dets, iouVars, compareVars, runVars, laterVars,
                   request_fault>>

OcrTesseract ==
    Ocr("tesseract",
        ocr_tesseract(request_fault, [i \in 1..Len(input) |-> TessRow(input[i])]))
OcrPaddle == Ocr("paddle", ocr_paddle(request_fault, input))
OcrEasy == Ocr("easyocr", ocr_easy(request_fault, input))
OcrSurya == Ocr("surya", ocr_surya(request_fault, input))

NextOcr ==
    \/ OcrTesseract
    \/ OcrPaddle
    \/ OcrEasy
    \/ OcrSurya

SpecOcr == InitOcr /\ [][NextOcr]_vars

\* -------------------------------------------------- detections of one row
\* Detections that tie under the groupers' sort keys: a and b share the
\* top-y 0 at different left-x, c shares top-y and left-x with a, d lies on
\* a row of its own 50 px down.
TiedDetections ==
    { Raw(<<"a">>, Some(900), <<0, 0, 50, 20>>),
      Raw(<<"b">>, Some(800), <<55, 0, 110, 20>>),
      Raw(<<"c">>, Some(700), <<0, 0, 30, 10>>),
      Raw(<<"d">>, Some(900), <<0, 50, 50, 58>>) }

TiedLists == UNION {[1..n -> TiedDetections] : n \in 0..MaxDets}

InitTied ==
    /\ LaterIdle
    /\ input \in TiedLists
    /\ engine = "none"
    /\ status = "idle"
    /\ blocks = <<>>
    /\ dets = <<>>
    /\ IoUIdle
    /\ CompareIdle
    /\ RunIdle
    /\ OcrIdle

SpecTied == InitTied /\ [][Next]_vars


\* ------------------------------------------------ overlapping stage boxes
\* Blocks whose boxes, one pixel wide, overlap to different degrees: the
\* IoU of the first with the others is 3/5, 7/10 and 1/6, that of the
\* second and third exactly 3/10, and that of the last two 2/9.
OverlapBlocks ==
    { StageBlock(<<"a">>, <<0, 0, 1, 10>>),
      StageBlock(<<"a">>, <<0, 0, 1, 6>>),
      StageBlock(<<"a">>, <<0, 3, 1, 10>>),
      StageBlock(<<"a">>, <<0, 8, 1, 12>>) }

OverlapLists == UNION {[1..n -> OverlapBlocks] : n \in 0..MaxBlocks}

InitOverlap ==
    /\ LaterIdle
    /\ before_blocks \in OverlapLists
    /\ after_blocks \in OverlapLists
    /\ content_changes = NotCalled
    /\ layout_changes = NotCalled
    /\ ParseIdle
    /\ IoUIdle
    /\ RunIdle
    /\ OcrIdle

SpecOverlap == InitOverlap /\ [][NextCompare]_vars


\* ---------------------------------------------------------- reading order
\* longest box list handed to the reading-order score
MaxBoxes == 3

\* Boxes of 50 by 20 pixels in two columns, at tops 0, 5, 10 and 30: tops
\* less than, exactly and more than 10 px apart.
OrderBoxes == {<<x, y, x + 50, y + 20>> : x \in {0, 60}, y \in {0, 5, 10, 30}}

OrderLists == UNION {[1..n -> OrderBoxes] : n \in 0..MaxBoxes}

\* the fixed part of every state outside the first subsystems
EarlyIdle ==
    /\ ParseIdle
    /\ IoUIdle
    /\ CompareIdle
    /\ RunIdle
    /\ OcrIdle

earlyVars == <<parseVars, iouVars, compareVars, runVars, ocrVars>>

InitOrder ==
    /\ EarlyIdle
    /\ LaterIdleExcept("order")
    /\ order_bboxes \in OrderLists
    /\ order_score = None

CalculateReadingOrderScore ==
    /\ order_score' = Some(calculate_reading_order_score(order_bboxes))
    /\ UNCHANGED <<earlyVars, order_bboxes>>
    /\ LaterUnchangedExcept("order")

NextOrder == CalculateReadingOrderScore

SpecOrder == InitOrder /\ [][NextOrder]_vars


\* ---------------------------------------------------- loads of one process
\* A freshly started adapter process; every request asks its loader for a
\* key, and building the engine object succeeds or raises.
InitCache ==
    /\ EarlyIdle
    /\ LaterIdleExcept("cache")
    /\ CacheIdle

\* one load by adapter a for key: r is the loader's outcome
Load(a, key, r) ==
    /\ loads < MaxLoads
    /\ loads' = loads + 1
    /\ load' = [adapter |-> a, key |-> key, status |-> r.status, built |-> r.built,
                instance |-> IF r.status = "returned" THEN Some(r.instance) ELSE None]
    /\ constructed' = IF r.built
                      THEN [constructed EXCEPT ![a][key] = @ + 1]
                      ELSE constructed
    /\ UNCHANGED earlyVars
    /\ LaterUnchangedExcept("cache")

GetReader ==
    \E key \in Keys, fails \in BOOLEAN :
        LET r == get_reader(READERS, key, fails, constructed["easyocr"][key] + 1)
        IN /\ Load("easyocr", key, r)
           /\ READERS' = r.cache
           /\ UNCHANGED <<MODELS, DOCTR>>

GetOcr ==
    \E key \in Keys, fails \in BOOLEAN :
        LET r == get_ocr(MODELS, key, fails, constructed["paddle"][key] + 1)
        IN /\ Load("paddle", key, r)
           /\ MODELS' = r.cache
           /\ UNCHANGED <<READERS, DOCTR>>

\* docTR takes no handwritten flag
GetModel ==
    \E lang \in Langs, fails \in BOOLEAN :
        LET r == get_model(DOCTR, <<lang, FALSE>>, fails,
                           constructed["doctr"][<<lang, FALSE>>] + 1)
        IN /\ Load("doctr", <<lang, FALSE>>, r)
           /\ DOCTR' = r.cache
           /\ UNCHANGED <<READERS, MODELS>>

NextCache ==
    \/ GetReader
    \/ GetOcr
    \/ GetModel

SpecCache == InitCache /\ [][NextCache]_vars


\* ------------------------------------------------ stages 3 and 4 of a flow
\* All four services are healthy; the engine tasks run concurrently and
\* finish in any order, and the selection runs on the gathered results.
InitSelect ==
    /\ EarlyIdle
    /\ LaterIdleExcept("select")
    /\ engine_responses \in [Engines -> UNION {OcrResponses(e) : e \in Engines}]
    /\ \A e \in Engines : engine_responses[e] \in OcrResponses(e)
    /\ ocr_results = [e \in Engines |-> None]
    /\ best_result = None

ProcessWithMcpEngine ==
    \E e \in Engines :
        /\ ocr_results[e] = None
        /\ ocr_results' =
              [ocr_results EXCEPT ![e] = Some(process_with_mcp_engine(e, engine_responses[e]))]
        /\ UNCHANGED <<earlyVars, engine_responses, best_result>>
        /\ LaterUnchangedExcept("select")

SelectBestOcrResult ==
    /\ \A e \in Engines : ocr_results[e] # None
    /\ best_result = None
    /\ best_result' =
          Some(select_best_ocr_result(
                   [i \in 1..Len(mcp_services) |-> Val(ocr_results[mcp_services[i]])]))
    /\ UNCHANGED <<earlyVars, engine_responses, ocr_results>>
    /\ LaterUnchangedExcept("select")

NextSelect ==
    \/ ProcessWithMcpEngine
    \/ SelectBestOcrResult

SpecSelect == InitSelect /\ [][NextSelect]_vars


\* ------------------------------------------------- two runners that wait
\* Both runners wait for the same services with the same timeout and see the
\* same answers: the services go through rounds, and each runner makes its
\* k-th pass over the answers of round k.  A pass with its sleep takes one
\* interval, so a runner that has made MaxRounds passes finds the timeout
\* expired.
InitWait ==
    /\ EarlyIdle
    /\ LaterIdleExcept("wait")
    /\ health = [s \in SERVICES |-> [kind |-> "refused"]]
    /\ round = 0
    /\ ready_services = {}
    /\ run_round = 0
    /\ run_outcome = None
    /\ hc_round = 0
    /\ hc_outcome = None

\* the services come up and go down between the rounds
Observe ==
    /\ round < MaxRounds
    /\ run_outcome = None \/ hc_outcome = None
    /\ run_outcome = None => run_round = round
    /\ hc_outcome = None => hc_round = round
    /\ health' \in [SERVICES -> HealthAnswers]
    /\ round' = round + 1
    /\ UNCHANGED <<earlyVars, ready_services, run_round, run_outcome, hc_round, hc_outcome>>
    /\ LaterUnchangedExcept("wait")

\* run_pipeline.wait_for_services: one pass of the loop
RunPipelineIteration ==
    /\ run_outcome = None
    /\ run_round < MaxRounds
    /\ run_round < round
    /\ ready_services' = RunPipelinePass(ready_services, health)
    /\ run_round' = run_round + 1
    /\ run_outcome' = IF Cardinality(ready_services') = Cardinality(SERVICES)
                      THEN Some(TRUE) ELSE None
    /\ UNCHANGED <<earlyVars, health, round, hc_round, hc_outcome>>
    /\ LaterUnchangedExcept("wait")

\* run_pipeline.wait_for_services: the loop condition fails
RunPipelineTimeout ==
    /\ run_outcome = None
    /\ run_round >= MaxRounds
    /\ run_outcome' = Some(FALSE)
    /\ UNCHANGED <<earlyVars, health, round, ready_services, run_round, hc_round, hc_outcome>>
    /\ LaterUnchangedExcept("wait")

\* health_check.wait_for_services: one pass of the loop
HealthCheckIteration ==
    /\ hc_outcome = None
    /\ hc_round < MaxRounds
    /\ hc_round < round
    /\ hc_round' = hc_round + 1
    /\ hc_outcome' = IF HealthCheckPass(SERVICES, health) THEN Some(TRUE) ELSE None
    /\ UNCHANGED <<earlyVars, health, round, ready_services, run_round, run_outcome>>
    /\ LaterUnchangedExcept("wait")

\* health_check.wait_for_services: the loop condition fails
HealthCheckTimeout ==
    /\ hc_outcome = None
    /\ hc_round >= MaxRounds
    /\ hc_outcome' = Some(FALSE)
    /\ UNCHANGED <<earlyVars, health, round, ready_services, run_round, run_outcome, hc_round>>
    /\ LaterUnchangedExcept("wait")

NextWait ==
    \/ Observe
    \/ RunPipelineIteration
    \/ RunPipelineTimeout
    \/ HealthCheckIteration
    \/ HealthCheckTimeout

SpecWait == InitWait /\ [][NextWait]_vars

\* every pass and every probe ends: requests.get has a timeout, sleep returns
SpecWaitFair == SpecWait /\ WF_vars(NextWait)


\* ------------------------------------------ one stage directory, two readers
\* A stage directory with page files and a file that is no page file, each
\* missing, unreadable or readable; the quick check and the evaluator read it.
InitQuick ==
    /\ EarlyIdle
    /\ LaterIdleExcept("quick")
    /\ stage_exists \in BOOLEAN
    /\ stage_files \in [FileNames -> {"missing", "unreadable", "readable"}]
    /\ (\E f \in FileNames : stage_files[f] # "missing") => stage_exists
    /\ stage_data = NotCalled
    /\ stage_pages = NotCalled

LoadStageData ==
    /\ stage_data = NotCalled
    /\ stage_data' = Result(load_stage_data(stage_exists, stage_files))
    /\ UNCHANGED <<earlyVars, stage_exists, stage_files, stage_pages>>
    /\ LaterUnchangedExcept("quick")

EvaluateStage ==
    /\ stage_pages = NotCalled
    /\ stage_pages' = EvaluatedPages(stage_exists, stage_files)
    /\ UNCHANGED <<earlyVars, stage_exists, stage_files, stage_data>>
    /\ LaterUnchangedExcept("quick")

NextQuick ==
    \/ LoadStageData
    \/ EvaluateStage

SpecQuick == InitQuick /\ [][NextQuick]_vars


\* ================================================================ claims
Groupers == {"surya", "paddle", "easyocr", "tesseract"}

Called == status # "idle"
Answered == status = "returned"

MemberSet(b) == {b.members[k] : k \in 1..Len(b.members)}
BlocksWith(i) == {n \in 1..Len(blocks) : i \in MemberSet(blocks[n])}
ValidBox(b) == b[3] > b[1] /\ b[4] > b[2]

\* C1: for every detection list handed to a line grouper, every output
\* Block has at least one member, no detection is a member of two Blocks
\* (or twice of one), and every detection that survived normalization is a
\* member of exactly one Block.
C1_Partition ==
    (Called /\ engine \in Groupers) =>
        /\ \A n \in 1..Len(blocks) :
              /\ blocks[n].members # <<>>
              /\ Cardinality(MemberSet(blocks[n])) = Len(blocks[n].members)
        /\ \A n, m \in 1..Len(blocks) :
              n # m => MemberSet(blocks[n]) \cap MemberSet(blocks[m]) = {}
        /\ \A k \in 1..Len(dets) : Cardinality(BlocksWith(dets[k].id)) = 1

\* C2: the Block list a line grouper returns is in ascending top-y order;
\* two surviving detections at top-y 0 and top-y 50 come back as two
\* Blocks, the one at 0 first.
C2_Ordering ==
    (Answered /\ engine \in Groupers) =>
        /\ \A n \in 1..(Len(blocks) - 1) : blocks[n].bbox[2] <= blocks[n + 1].bbox[2]
        /\ (Len(dets) = 2 /\ {dets[1].bbox[2], dets[2].bbox[2]} = {0, 50}) =>
              /\ Len(blocks) = 2
              /\ blocks[1].bbox[2] = 0
              /\ blocks[2].bbox[2] = 50

\* C2 witness: easyocr was given the detection at top-y 50 before the one
\* at top-y 0 and returned the two Blocks top-y 0 first.
C2_Witness ==
    /\ engine = "easyocr" /\ Answered
    /\ Len(input) = 2 /\ input[1].geom[2] = 50 /\ input[2].geom[2] = 0
    /\ Len(blocks) = 2 /\ blocks[1].bbox[2] = 0 /\ blocks[2].bbox[2] = 50

\* C3: a line grouper finishes and returns a Block list for every finite
\* detection list; it never raises.
C3_NeverRaises == (Called /\ engine \in Groupers) => status = "returned"

\* C4: every Block a line grouper emits has x1 > x0 and y1 > y0, and no
\* detection with an inverted or zero-area box is a member of a Block.
C4_ValidGeometry ==
    (Answered /\ engine \in Groupers) =>
        /\ \A n \in 1..Len(blocks) : ValidBox(blocks[n].bbox)
        /\ \A k \in 1..Len(dets) :
              BlocksWith(dets[k].id) # {} => ValidBox(dets[k].bbox)

\* clamp(c / 100 if c > 1.0 else c, 0, 1)
Normalized(c) == Max2(0, Min2(One, IF c > One THEN c \div 100 ELSE c))

\* C5: a raw confidence c is normalized to clamp(c/100 if c > 1 else c, 0, 1),
\* and every confidence of an emitted Detection or Block lies in [0, 1].
C5_ConfidenceNormalized ==
    (Answered /\ engine \in Groupers) =>
        /\ \A k \in 1..Len(dets) :
              /\ input[dets[k].id].conf # None =>
                    dets[k].conf = Normalized(Val(input[dets[k].id].conf))
              /\ 0 <= dets[k].conf /\ dets[k].conf <= One
        /\ \A n \in 1..Len(blocks) :
              /\ 0 <= blocks[n].confidence[1]
              /\ blocks[n].confidence[1] <= One * blocks[n].confidence[2]

\* C6 as stated: a raw detection without a confidence is normalized to
\* confidence 0.9 in every adapter.
C6_DefaultIsPoint9 ==
    Answered =>
        \A k \in 1..Len(dets) : input[dets[k].id].conf = None => dets[k].conf = 900

\* the default each adapter gives a detection without a confidence
DefaultConfidence ==
    [e \in {"nanonets", "chandra", "surya", "paddle", "docling", "dots", "doctr"} |->
        CASE e \in {"nanonets", "chandra"} -> 900
          [] e \in {"surya", "paddle"} -> 1000
          [] e = "docling" -> 990
          [] e = "dots" -> 950
          [] e = "doctr" -> 0]

\* C6 amended: a raw detection without a confidence is normalized to 0.9 by
\* the nanonets and chandra adapters; surya and paddle give it 1.0, docling
\* 0.99, dots 0.95, doctr 0.0, and easyocr and tesseract drop it.
C6_DefaultPerAdapter ==
    Answered =>
        \A k \in 1..Len(dets) :
            input[dets[k].id].conf = None =>
                /\ engine \in DOMAIN DefaultConfidence
                /\ dets[k].conf = DefaultConfidence[engine]

\* C6 witness: nanonets normalized a detection that came without a
\* confidence.
C6_Witness ==
    /\ engine = "nanonets" /\ Answered
    /\ \E k \in 1..Len(dets) : input[dets[k].id].conf = None /\ dets[k].conf = 900

\* C7: a detection or word group whose text is empty after trimming never
\* reaches a Block: no emitted Block has empty or whitespace-only text.
C7_NoEmptyText ==
    Answered => \A n \in 1..Len(blocks) : Strip(blocks[n].text) # <<>>

\* C8: after normalization against a W x H image every Detection box
\* satisfies 0 <= x0 < x1 <= W and 0 <= y0 < y1 <= H.
C8_InsideImage ==
    (Answered /\ engine \in {"chandra", "nanonets"}) =>
        \A k \in 1..Len(dets) :
            /\ 0 <= dets[k].bbox[1] /\ dets[k].bbox[1] < dets[k].bbox[3]
            /\ dets[k].bbox[3] <= ImgW
            /\ 0 <= dets[k].bbox[2] /\ dets[k].bbox[2] < dets[k].bbox[4]
            /\ dets[k].bbox[4] <= ImgH

\* the unit cells a box covers
Cells(b) == {<<x, y>> : x \in b[1]..(b[3] - 1), y \in b[2]..(b[4] - 1)}

\* C9: IoU is symmetric, lies in [0, 1] and is 0 for boxes that do not
\* overlap.
C9_IoUSymmetric ==
    iou # None =>
        /\ RatEq(iou, calculate_bbox_iou(box2, box1))
        /\ iou[2] > 0 /\ 0 <= iou[1] /\ iou[1] <= iou[2]
        /\ Cells(box1) \cap Cells(box2) = {} => iou[1] = 0

\* C9 witness: two different boxes that partly overlap were compared.
C9_Witness ==
    /\ iou # None /\ box1 # box2
    /\ Cells(box1) \cap Cells(box2) # {}
    /\ iou[1] > 0 /\ iou[1] < iou[2]

\* C10 as stated: the IoU of any box the comparator accepts (any list of
\* four numbers) with itself is 1.0.
C10_IoUIdentity == (iou # None /\ box1 = box2) => RatEq(iou, <<1, 1>>)

\* C10 amended: the IoU of a box of positive area (x1 > x0 and y1 > y0)
\* with itself is 1.0; of a zero-area or inverted box with itself it is 0.0.
C10_IoUIdentityPositiveArea ==
    (iou # None /\ box1 = box2) =>
        IF ValidBox(box1) THEN RatEq(iou, <<1, 1>>) ELSE RatEq(iou, Zero)

\* C10 witness: a box of positive area was compared with itself.
C10_Witness == iou # None /\ box1 = box2 /\ ValidBox(box1)

\* C11 as stated: whenever the after stage holds the same Blocks as the
\* before stage, the layout comparison reports layout_preservation = 1.0
\* and the content comparison reports content_retention = 1.0.
C11_IdenticalPerfect ==
    before_blocks = after_blocks =>
        /\ layout_changes # NotCalled =>
              /\ layout_changes.status = "returned"
              /\ RatEq(layout_changes.metrics.layout_preservation, Rat(1))
        /\ content_changes # NotCalled =>
              RatEq(content_changes.metrics.content_retention, Rat(1))

\* C14: when a stage has no Blocks, or no Block with a four-number bbox,
\* analyze_content_changes and analyze_layout_changes still return a
\* metrics record; neither raises.
C14_EmptyInputNotError ==
    /\ content_changes # NotCalled => content_changes.status = "returned"
    /\ layout_changes # NotCalled => layout_changes.status = "returned"

\* the adapter half of C14: a parser given no detections returns an empty
\* Block list
C14_ParsersEmpty == (Called /\ input = <<>>) => (Answered /\ blocks = <<>>)

\* the run evaluation has returned
Evaluated == evaluation.status = "returned"

\* how often a page is listed in problematic_pages
Listed(page_number) ==
    Cardinality({i \in 1..Len(evaluation.problematic_pages) :
                    evaluation.problematic_pages[i] = page_number})

\* total_chars of the earliest / latest stage, in stage_mapping order, that
\* has metrics for the page
FirstChars(pe) ==
    LET idx == {StageIndex(pe.stages[i].stage) : i \in 1..Len(pe.stages)}
        lo == CHOOSE a \in idx : \A b \in idx : a <= b
        rec == CHOOSE i \in 1..Len(pe.stages) : StageIndex(pe.stages[i].stage) = lo
    IN pe.stages[rec].metrics.total_chars
LastChars(pe) ==
    LET idx == {StageIndex(pe.stages[i].stage) : i \in 1..Len(pe.stages)}
        hi == CHOOSE a \in idx : \A b \in idx : a >= b
        rec == CHOOSE i \in 1..Len(pe.stages) : StageIndex(pe.stages[i].stage) = hi
    IN pe.stages[rec].metrics.total_chars

StagesWithMetrics ==
    UNION {{StageIndex(evaluation.pages[i].stages[k].stage) :
               k \in 1..Len(evaluation.pages[i].stages)} :
           i \in 1..Len(evaluation.pages)}

\* the characters all pages together have at the stage at position n
StageChars(n) ==
    SumOf([i \in 1..Len(evaluation.pages) |->
             LET st == evaluation.pages[i].stages
                 at == {k \in 1..Len(st) : StageIndex(st[k].stage) = n}
             IN IF at = {} THEN 0 ELSE st[CHOOSE k \in at : TRUE].metrics.total_chars])

\* C13 as stated: total_content_drop = 1 - final_stage_chars /
\* max(first_stage_chars, 1), the characters being those of the first and
\* the final stage of the run.
C13_TotalContentDrop ==
    Evaluated =>
        LET first == IF StagesWithMetrics = {} THEN 0
                     ELSE StageChars(CHOOSE a \in StagesWithMetrics :
                                        \A b \in StagesWithMetrics : a <= b)
            final == IF StagesWithMetrics = {} THEN 0
                     ELSE StageChars(CHOOSE a \in StagesWithMetrics :
                                        \A b \in StagesWithMetrics : a >= b)
        IN RatEq(evaluation.total_content_drop,
                 <<Max2(first, 1) - final, Max2(first, 1)>>)

\* C13 amended: total_content_drop = 1 - final / max(initial, 1), where
\* initial (final) adds up, over the pages that have metrics, the
\* characters of the page's own earliest (latest) stage with metrics; it is
\* 0.0 for a run without pages.
C13_TotalContentDropPerPage ==
    Evaluated =>
        LET with == {i \in 1..Len(evaluation.pages) : evaluation.pages[i].stages # <<>>}
            initial == SumOf([i \in 1..Len(evaluation.pages) |->
                                IF i \in with THEN FirstChars(evaluation.pages[i]) ELSE 0])
            final == SumOf([i \in 1..Len(evaluation.pages) |->
                              IF i \in with THEN LastChars(evaluation.pages[i]) ELSE 0])
        IN IF evaluation.pages = <<>>
           THEN RatEq(evaluation.total_content_drop, Zero)
           ELSE RatEq(evaluation.total_content_drop,
                      <<Max2(initial, 1) - final, Max2(initial, 1)>>)

\* C13 witness: of two pages with 100 characters at the first stage, one
\* ends with 70 characters at the last stage and the other, whose last page
\* file is missing, with 85 at the middle stage; the drop is 1 - 155/200.
C13_Witness ==
    /\ Evaluated
    /\ Len(evaluation.pages) = 2
    /\ \E i, j \in 1..2 :
          /\ Len(evaluation.pages[i].stages) = 3
          /\ Len(evaluation.pages[j].stages) = 2
          /\ FirstChars(evaluation.pages[i]) = 100
          /\ LastChars(evaluation.pages[i]) = 70
          /\ FirstChars(evaluation.pages[j]) = 100
          /\ LastChars(evaluation.pages[j]) = 85
    /\ RatEq(evaluation.total_content_drop, <<45, 200>>)

\* C15: for every page, word_error_rate and character_error_rate are NaN
\* whenever the page has no ground-truth file or the ground-truth
\* evaluation fails; the run evaluation still returns, with every page of
\* the first stage evaluated and the aggregate metrics computed.
C15_MissingReferenceNaN ==
    evaluation # NotCalled =>
        /\ Evaluated
        /\ \A i \in 1..Len(evaluation.pages) :
              LET pe == evaluation.pages[i]
              IN ground_truth[pe.page_number] \in {"absent", "fails"} =>
                    /\ pe.word_error_rate = "NaN"
                    /\ pe.character_error_rate = "NaN"
        /\ \A p \in Pages :
              run_files[p]["01_blocks"] # "missing" =>
                  \E i \in 1..Len(evaluation.pages) : evaluation.pages[i].page_number = p
        /\ evaluation.pages # <<>> =>
              RatEq(evaluation.total_content_drop,
                    <<Max2(StageChars(1), 1)
                        - SumOf([i \in 1..Len(evaluation.pages) |->
                                   IF evaluation.pages[i].stages = <<>> THEN 0
                                   ELSE LastChars(evaluation.pages[i])]),
                      Max2(StageChars(1), 1)>>)

\* C15 witness: the ground-truth evaluation of one page failed on a page
\* that has Blocks, its error rates are NaN, and another page of the run got
\* its error rates.
C15_Witness ==
    /\ Evaluated
    /\ \E i, j \in 1..Len(evaluation.pages) :
          /\ ground_truth[evaluation.pages[i].page_number] = "fails"
          /\ evaluation.pages[i].stages # <<>>
          /\ LastChars(evaluation.pages[i]) > 0
          /\ evaluation.pages[i].word_error_rate = "NaN"
          /\ ground_truth[evaluation.pages[j].page_number] = "ok"
          /\ evaluation.pages[j].word_error_rate = "number"
          /\ evaluation.pages[j].character_error_rate = "number"

\* the page has a StageMetrics record for the stage
HasRecord(p, s) ==
    /\ Evaluated
    /\ \E i \in 1..Len(evaluation.pages) :
          /\ evaluation.pages[i].page_number = p
          /\ \E k \in 1..Len(evaluation.pages[i].stages) :
                evaluation.pages[i].stages[k].stage = s

\* C16: a missing or unreadable page file or stage directory removes only
\* the metrics record of that page and stage: after evaluate_pipeline_run
\* every page and stage whose file is readable has a StageMetrics record,
\* whichever stage the failure is in, the first one included.
C16_FailureIsolation ==
    evaluation # NotCalled =>
        \A p \in Pages : \A s \in RunStages :
            run_files[p][s] = "readable" => HasRecord(p, s)

\* the same for failures after the first stage directory: every readable
\* file of a page that has a file in the first existing stage directory
\* gets its record
C16_IsolationAfterFirstStage ==
    evaluation # NotCalled =>
        \A p \in Pages : \A s \in RunStages :
            LET first == CHOOSE f \in RunStages :
                            /\ run_dirs[f]
                            /\ \A g \in RunStages :
                                  run_dirs[g] => StageIndex(f) <= StageIndex(g)
            IN (run_files[p][s] = "readable" /\ run_files[p][first] # "missing")
                   => HasRecord(p, s)

\* C17: every /ocr request is answered with a JSON body that holds "engine"
\* and "blocks"; when loading the model, running the engine or parsing its
\* result fails the status is 500, "blocks" is empty and the body holds
\* "error"; no exception leaves the handler.
C17_UniformErrorContract ==
    response # NoResponse =>
        /\ response.kind = "json"
        /\ {"engine", "blocks"} \subseteq DOMAIN response.body
        /\ response.status_code = 500 =>
              /\ response.body.blocks = <<>>
              /\ "error" \in DOMAIN response.body
        /\ (request_fault = "inference"
              \/ (request_fault = "load" /\ engine # "tesseract")) =>
              response.status_code = 500

\* the Block a surviving detection went to, and the detection of an id
BlockOf(i) == CHOOSE n \in 1..Len(blocks) : i \in MemberSet(blocks[n])
DetOf(i) == dets[CHOOSE k \in 1..Len(dets) : dets[k].id = i]

\* reference-y of a Block: the top-y of its member that was scanned first
RefY(n) ==
    LET at == {k \in 1..Len(dets) : dets[k].id \in MemberSet(blocks[n])}
    IN dets[CHOOSE k \in at : \A j \in at : k <= j].bbox[2]

\* C18: scanning in sorted order, a detection joins the line of the
\* detection before it if and only if its top-y is within the tolerance of
\* the line's reference-y, the top-y of the line's first member; so in every
\* output Block every member's top-y is within the tolerance of the first
\* member's.
C18_AnchoredReferenceY ==
    (Answered /\ engine \in Groupers) =>
        /\ \A n \in 1..Len(blocks) : \A k \in 1..Len(dets) :
              dets[k].id \in MemberSet(blocks[n]) =>
                  Abs(dets[k].bbox[2] - RefY(n)) <= YTol
        /\ \A k \in 1..(Len(dets) - 1) :
              BlockOf(dets[k + 1].id) = BlockOf(dets[k].id) <=>
                  Abs(dets[k + 1].bbox[2] - RefY(BlockOf(dets[k].id))) <= YTol

\* C19: the text of every output Block of a line grouper is the texts of
\* its members joined by single spaces in ascending order of left-x.
C19_LeftToRightText ==
    (Answered /\ engine \in Groupers) =>
        \A n \in 1..Len(blocks) :
            LET scanned == SelectSeq(dets, LAMBDA det : det.id \in MemberSet(blocks[n]))
                byx == SortBy(scanned, LAMBDA a, b : a.bbox[1] < b.bbox[1])
            IN blocks[n].text = Join(Field(byx, "text"))

\* C20: the bbox of every output Block is the union of its members' boxes
\* (least x0 and y0, greatest x1 and y1) and its confidence is the mean of
\* its members' confidences; members ([0,0,50,20], 0.9) and
\* ([55,2,110,22], 0.8) give bbox [0,0,110,22] and confidence 0.85.
C20_BlockAggregation ==
    (Answered /\ engine \in Groupers) =>
        \A n \in 1..Len(blocks) :
            LET ms == MemberSet(blocks[n])
                b == blocks[n].bbox
            IN /\ \A i \in ms :
                     /\ b[1] <= DetOf(i).bbox[1] /\ b[2] <= DetOf(i).bbox[2]
                     /\ b[3] >= DetOf(i).bbox[3] /\ b[4] >= DetOf(i).bbox[4]
               /\ \A c \in 1..4 : \E i \in ms : b[c] = DetOf(i).bbox[c]
               /\ RatEq(blocks[n].confidence,
                        <<SumOf([k \in 1..Len(dets) |->
                                   IF dets[k].id \in ms THEN dets[k].conf ELSE 0]),
                          Cardinality(ms)>>)
               /\ {DetOf(i).bbox : i \in ms} = {<<0, 0, 50, 20>>, <<55, 2, 110, 22>>}
                     => b = <<0, 0, 110, 22>>
               /\ ( /\ Cardinality(ms) = 2
                    /\ \E i, j \in ms : DetOf(i).conf = 900 /\ DetOf(j).conf = 800 )
                     => RatEq(blocks[n].confidence, <<850, 1>>)

\* C20 witness: a grouper merged ([0,0,50,20], 0.9) and ([55,2,110,22], 0.8)
\* into one Block with bbox [0,0,110,22] and confidence 0.85.
C20_Witness ==
    /\ Answered /\ engine \in Groupers
    /\ \E n \in 1..Len(blocks) :
          /\ Len(blocks[n].members) = 2
          /\ {DetOf(i).bbox : i \in MemberSet(blocks[n])}
                = {<<0, 0, 50, 20>>, <<55, 2, 110, 22>>}
          /\ {DetOf(i).conf : i \in MemberSet(blocks[n])} = {900, 800}
          /\ blocks[n].bbox = <<0, 0, 110, 22>>
          /\ RatEq(blocks[n].confidence, <<850, 1>>)

\* the parser of adapter e applied to the raw detections r
ParserOf(e, r) ==
    CASE e = "surya" -> parse_surya_output(r)
      [] e = "paddle" -> parse_paddle_output(r)
      [] e = "easyocr" -> parse_easy_output(r)
      [] e = "tesseract" -> parse_tess_output([i \in 1..Len(r) |-> TessRow(r[i])])

\* the rearrangements of a list of n items
Rearrangements(n) ==
    {p \in [1..n -> 1..n] : \A i, j \in 1..n : i # j => p[i] # p[j]}

\* two Block lists show the same texts, boxes and confidences in the same
\* order
SameBlocks(bs, cs) ==
    /\ Len(bs) = Len(cs)
    /\ \A n \in 1..Len(bs) :
          /\ bs[n].text = cs[n].text
          /\ bs[n].bbox = cs[n].bbox
          /\ RatEq(bs[n].confidence, cs[n].confidence)

\* C21: for every detection list handed to a line grouper, every
\* rearrangement of the list gives the same outcome: the same Block list
\* (texts, boxes, confidences and order).
C21_OrderIndependence ==
    (Called /\ engine \in Groupers) =>
        \A p \in Rearrangements(Len(input)) :
            LET r == ParserOf(engine, [i \in 1..Len(input) |-> input[p[i]]])
            IN /\ r.status = status
               /\ SameBlocks(r.blocks, blocks)

\* the sum of a list of fractions
RECURSIVE RatSum(_)
RatSum(qs) == IF qs = <<>> THEN Zero ELSE RatAdd(Head(qs), RatSum(Tail(qs)))

\* the greatest IoU of box b against the boxes cs
BestIoU(b, cs) ==
    LET ious == {calculate_bbox_iou(b, cs[j]) : j \in 1..Len(cs)}
    IN CHOOSE q \in ious : \A r \in ious : ~RatLt(q, r)

\* what a before box adds to the preservation sum
MatchedIoU(b, cs) ==
    IF RatLt(<<3, 10>>, BestIoU(b, cs)) THEN BestIoU(b, cs) ELSE Zero

\* C22: for non-empty before and after box lists the layout preservation
\* is the sum, over the before boxes whose best IoU against the after boxes
\* exceeds 0.3, of that best IoU, divided by the number of before boxes;
\* a before box whose best IoU is at most 0.3 adds nothing, and the result
\* lies in [0, 1].
C22_LayoutPreservation ==
    layout_changes.status = "returned" =>
        LET bs == SelectSeq(Field(before_blocks, "bbox"), LAMBDA b : Len(b) = 4)
            cs == SelectSeq(Field(after_blocks, "bbox"), LAMBDA b : Len(b) = 4)
            sum == RatSum([i \in 1..Len(bs) |-> MatchedIoU(bs[i], cs)])
            score == layout_changes.metrics.layout_preservation
        IN /\ RatEq(score, <<sum[1], sum[2] * Len(bs)>>)
           /\ ~RatLt(score, Zero)
           /\ ~RatLt(Rat(1), score)

\* C22 witness: of two before boxes one overlaps the only after box by
\* exactly 0.3 and adds nothing, the other by 0.6: the score is 0.3.
C22_Witness ==
    /\ layout_changes.status = "returned"
    /\ Field(before_blocks, "bbox") = << <<0, 3, 1, 10>>, <<0, 0, 1, 10>> >>
    /\ Field(after_blocks, "bbox") = << <<0, 0, 1, 6>> >>
    /\ RatEq(layout_changes.metrics.layout_preservation, <<3, 10>>)

\* neighbours i, i + 1 of the scored list are out of reading order: the
\* next box starts more than 10 px above the current one, or both are on
\* one row and the next one is left of the current one
OutOfOrder(i) ==
    \/ order_bboxes[i + 1][2] + YTol < order_bboxes[i][2]
    \/ /\ Abs(order_bboxes[i][2] - order_bboxes[i + 1][2]) < YTol
       /\ order_bboxes[i + 1][1] < order_bboxes[i][1]

\* C23: a list of n >= 2 boxes scores 1 - v/(n-1), v being the number of
\* neighbouring pairs out of reading order and n-1 the number of
\* neighbouring pairs; a list of fewer than 2 boxes scores 1; the score is
\* within [0, 1].
C23_ReadingOrderScore ==
    order_score # None =>
        LET n == Len(order_bboxes)
            v == Cardinality({i \in 1..(n - 1) : OutOfOrder(i)})
        IN /\ n >= 2 => RatEq(Val(order_score), <<(n - 1) - v, n - 1>>)
           /\ n < 2 => RatEq(Val(order_score), Rat(1))
           /\ ~RatLt(Val(order_score), Zero)
           /\ ~RatLt(Rat(1), Val(order_score))

\* 0.4 * mean_confidence + 0.3 * reading_order_score
\*   + 0.3 * medical_terms_preserved, in hundredths of the three fields
Composite(m) ==
    Norm(<<40 * m.mean_confidence[1] * m.reading_order_score[2]
                  * m.medical_terms_preserved[2]
             + 30 * m.reading_order_score[1] * m.mean_confidence[2]
                  * m.medical_terms_preserved[2]
             + 30 * m.medical_terms_preserved[1] * m.mean_confidence[2]
                  * m.reading_order_score[2],
           100 * m.mean_confidence[2] * m.reading_order_score[2]
               * m.medical_terms_preserved[2]>>)

\* the pages that have metrics at the stage at position n
PagesAtStage(n) ==
    {i \in 1..Len(evaluation.pages) :
        \E k \in 1..Len(evaluation.pages[i].stages) :
            StageIndex(evaluation.pages[i].stages[k].stage) = n}

\* the metrics of page i at the stage at position n
PageStageMetrics(i, n) ==
    LET st == evaluation.pages[i].stages
    IN st[CHOOSE k \in 1..Len(st) : StageIndex(st[k].stage) = n].metrics

\* the sum of the composite scores of the pages ps at the stage at
\* position n
RECURSIVE CompositeSum(_, _)
CompositeSum(ps, n) ==
    IF ps = {} THEN Zero
    ELSE LET i == CHOOSE i \in ps : TRUE
         IN Norm(RatAdd(Composite(PageStageMetrics(i, n)), CompositeSum(ps \ {i}, n)))

\* how many stages with metrics come at or before position n
Rank(n) == Cardinality({m \in StagesWithMetrics : m <= n})

\* C24: after aggregation quality_trend has exactly one entry for each
\* stage that has metrics on at least one page, in stage_mapping order,
\* and the entry is the mean over those pages of 0.4 * mean_confidence +
\* 0.3 * reading_order_score + 0.3 * medical_terms_preserved.
C24_QualityTrend ==
    (Evaluated /\ evaluation.pages # <<>>) =>
        /\ Len(evaluation.quality_trend) = Cardinality(StagesWithMetrics)
        /\ \A n \in StagesWithMetrics :
              LET sum == CompositeSum(PagesAtStage(n), n)
              IN RatEq(evaluation.quality_trend[Rank(n)],
                       <<sum[1], sum[2] * Cardinality(PagesAtStage(n))>>)

\* C24 witness: two pages with metrics at all three stages; the first
\* stage scores 0.3 and 0.66, the second 0.86 and 0.96, the third 0.96 and
\* 0.8, and the trend is 0.48, 0.91, 0.88.
C24_Witness ==
    /\ Evaluated
    /\ Len(evaluation.pages) = 2
    /\ \A i \in 1..2 : Len(evaluation.pages[i].stages) = 3
    /\ Len(evaluation.quality_trend) = 3
    /\ RatEq(evaluation.quality_trend[1], <<48, 100>>)
    /\ RatEq(evaluation.quality_trend[2], <<91, 100>>)
    /\ RatEq(evaluation.quality_trend[3], <<88, 100>>)

\* two lists of fractions hold the same numbers in the same order
SameTrend(qs, rs) ==
    /\ Len(qs) = Len(rs)
    /\ \A n \in 1..Len(qs) : RatEq(qs[n], rs[n])

\* C25: the run summary (total_content_drop, quality_trend,
\* problematic_pages, recommended_actions) computed from the evaluated
\* pages is the same for every order in which the pages are inserted into
\* evaluation.pages.
C25_PageOrderIndependence ==
    Evaluated =>
        \A p \in Rearrangements(Len(evaluation.pages)) :
            LET summary == calculate_aggregate_metrics(
                               [i \in 1..Len(evaluation.pages) |-> evaluation.pages[p[i]]])
            IN /\ RatEq(summary.total_content_drop, evaluation.total_content_drop)
               /\ SameTrend(summary.quality_trend, evaluation.quality_trend)
               /\ summary.problematic_pages = evaluation.problematic_pages
               /\ summary.recommended_actions = evaluation.recommended_actions

\* added and removed are not both positive and account for the step from
\* before to after
Accounts(before, after, added, removed) ==
    /\ ~(added > 0 /\ removed > 0)
    /\ after - before = added - removed

\* the stages of page p whose directory exists and whose page file is
\* readable, in stage_mapping order
LoadedStages(p) ==
    SelectSeq(stage_mapping,
              LAMBDA s : /\ s \in RunStages
                         /\ run_dirs[s]
                         /\ run_files[p][s] = "readable")

\* C26: on every evaluated page the stage records are those of the stages
\* with a readable page file, in stage order (a stage without one is
\* skipped); the first record has all added/removed deltas 0; for every
\* later record chars_added and chars_removed are never both positive and
\* total_chars minus the total_chars of the record before it equals
\* chars_added - chars_removed, and likewise for words and blocks.
C26_StageDeltas ==
    Evaluated =>
        \A i \in 1..Len(evaluation.pages) :
            LET pe == evaluation.pages[i]
                m(k) == pe.stages[k].metrics
            IN /\ Field(pe.stages, "stage") = LoadedStages(pe.page_number)
               /\ \A k \in 1..Len(pe.stages) :
                     IF k = 1
                     THEN /\ m(k).chars_added = 0 /\ m(k).chars_removed = 0
                          /\ m(k).words_added = 0 /\ m(k).words_removed = 0
                          /\ m(k).blocks_added = 0 /\ m(k).blocks_removed = 0
                     ELSE /\ Accounts(m(k - 1).total_chars, m(k).total_chars,
                                      m(k).chars_added, m(k).chars_removed)
                          /\ Accounts(m(k - 1).total_words, m(k).total_words,
                                      m(k).words_added, m(k).words_removed)
                          /\ Accounts(m(k - 1).total_blocks, m(k).total_blocks,
                                      m(k).blocks_added, m(k).blocks_removed)

\* C26 witness: a page whose middle stage file cannot be read has two
\* records; the last stage, with 86 characters in one Block, is compared
\* with the first, an empty text in one Block: 86 characters and one word
\* added, nothing removed.
C26_Witness ==
    /\ Evaluated
    /\ \E i \in 1..Len(evaluation.pages) :
          LET pe == evaluation.pages[i]
          IN /\ run_files[pe.page_number]["02_cleaned"] = "unreadable"
             /\ run_dirs["02_cleaned"]
             /\ Field(pe.stages, "stage") = <<"01_blocks", "05_merged_validated">>
             /\ pe.stages[1].metrics.total_chars = 0
             /\ pe.stages[2].metrics.chars_added = 86
             /\ pe.stages[2].metrics.chars_removed = 0
             /\ pe.stages[2].metrics.words_added = 1
             /\ pe.stages[2].metrics.blocks_added = 0

\* C27: in each adapter the engine object for a key is built at most once
\* per process.
C27_LoadOnce ==
    \A a \in LoadAdapters : \A key \in Keys : constructed[a][key] <= 1

\* what the adapter a has cached for key
Cached(a, key) ==
    CASE a = "easyocr" -> READERS[key]
      [] a = "paddle" -> MODELS[key]
      [] a = "doctr" -> IF DOCTR.LANG = Some(key[1]) THEN DOCTR.MODEL ELSE None

\* the dict-cached adapters build the object for a key at most once, and a
\* load that did not build leaves what is cached as it was
C27_LoadOnceKeyed ==
    /\ \A a \in {"easyocr", "paddle"} : \A key \in Keys : constructed[a][key] <= 1
    /\ [][\A a \in {"easyocr", "paddle"} : \A key \in Keys :
              /\ Cached(a, key) # None => Cached(a, key)' = Cached(a, key)
              /\ (load'.status = "raised" /\ load'.adapter = a)
                    => Cached(a, key)' = Cached(a, key)]_vars

\* the engines whose POST /ocr was answered with HTTP 200
Succeeded == {e \in Engines : /\ engine_responses[e].kind = "http"
                              /\ engine_responses[e].status_code = 200}

\* the number of Blocks in the /ocr response of engine e
ResponseBlocks(e) == Len(engine_responses[e].json.blocks)

\* C28: the selection returns, among the engine results with status
\* "success", one whose /ocr response holds the largest number of Blocks;
\* if no engine succeeded it returns a result with status "failed".
C28_BestEngine ==
    best_result # None =>
        IF Succeeded = {}
        THEN Val(best_result).status = "failed"
        ELSE /\ Val(best_result).status = "success"
             /\ Val(best_result).engine \in Succeeded
             /\ \A e \in Succeeded :
                   ResponseBlocks(e) <= ResponseBlocks(Val(best_result).engine)

\* every configured service answers /health with HTTP 200
AllHealthy == \A s \in SERVICES : /\ health[s].kind = "http"
                                  /\ health[s].status_code = 200

\* C29: wait_for_services returns True only if all configured services are
\* healthy when it returns, in run_pipeline.py as in health_check.py, and
\* the two runners agree on the outcome for the same answers.
C29_WaitForServices ==
    /\ [][/\ (run_outcome = None /\ run_outcome' = Some(TRUE)) => AllHealthy
          /\ (hc_outcome = None /\ hc_outcome' = Some(TRUE)) => AllHealthy]_vars
    /\ [](run_outcome # None /\ hc_outcome # None => run_outcome = hc_outcome)

\* C29, the runner of health_check.py alone: True only when every service
\* is healthy in the pass that returns, False only at the timeout
C29_HealthCheckOnly ==
    [][/\ (hc_outcome = None /\ hc_outcome' = Some(TRUE)) => AllHealthy
       /\ (hc_outcome = None /\ hc_outcome' = Some(FALSE)) => hc_round >= MaxRounds]_vars

\* C29, termination: both runners return
C29_Terminates == <>(run_outcome # None /\ hc_outcome # None)

\* the page numbers n >= 0 of the readable JSON files named page_<n>
ReadablePages ==
    {n \in 0..MaxPageNo : stage_files[PageFileName(n)] = "readable"}

\* C30: load_stage_data returns an entry for each readable JSON file whose
\* name contains page_<n>, for any n >= 0, so the quick check covers the
\* pages that evaluate_pipeline_run evaluates for the stage.
C30_QuickCoversPages ==
    /\ stage_data # NotCalled =>
          \A n \in ReadablePages : n \in DOMAIN stage_data.value
    /\ (stage_data # NotCalled /\ stage_pages # NotCalled
            /\ stage_pages.status = "returned") =>
          DOMAIN stage_data.value = stage_pages.value

\* C30, page numbers n >= 1 only: the entries are the readable page files,
\* and the pages other than 0 are those the evaluator evaluates
C30_QuickCoversPositivePages ==
    /\ stage_data # NotCalled =>
          DOMAIN stage_data.value = ReadablePages \ {0}
    /\ (stage_data # NotCalled /\ stage_pages # NotCalled
            /\ stage_pages.status = "returned") =>
          DOMAIN stage_data.value = stage_pages.value \ {0}

====
